---- MODULE Spec2Model ----
(***************************************************************************)
(* Orchard (src/orchard.js): the chord generator's music-theory functions, *)
(* the OrchardMIDI output class (registry of sounding notes, cancellable   *)
(* timers) and the OrchardEngine note lifecycle (pass-through, quantize,   *)
(* chord generation, performance patterns, arp loop).                      *)
(*                                                                         *)
(* Time is in milliseconds.  setTimeout takes an integer delay, so every   *)
(* delay handed to it is floored.  A timer carries the time left until it  *)
(* is due; timers fire in deadline order, ties in creation order.          *)
(***************************************************************************)
EXTENDS Integers, Sequences, FiniteSets, TLC

\* ------------------------------------------------------------------ tables

NULL == "null"

CHORD_INTERVALS ==
  [ Maj |-> {0, 4, 7}, Min |-> {0, 3, 7}, Sus |-> {0, 5, 7}, Dim |-> {0, 3, 6} ]

EXTENSION_INTERVALS ==
  ( "6" :> 9 ) @@ ( "m7" :> 10 ) @@ ( "M7" :> 11 ) @@ ( "9" :> 14 )

SCALE_DEGREES ==
  [ major            |-> <<0, 2, 4, 5, 7, 9, 11>>,
    natural_minor    |-> <<0, 2, 3, 5, 7, 8, 10>>,
    harmonic_minor   |-> <<0, 2, 3, 5, 7, 8, 11>>,
    dorian           |-> <<0, 2, 3, 5, 7, 9, 10>>,
    mixolydian       |-> <<0, 2, 4, 5, 7, 9, 10>>,
    pentatonic_major |-> <<0, 2, 4, 7, 9>>,
    pentatonic_minor |-> <<0, 3, 5, 7, 10>>,
    blues            |-> <<0, 3, 5, 6, 7, 10>> ]

\* KEY_MODE_MAPPINGS[scale] || ADDITIONAL_KEY_MODE_MAPPINGS[scale]
KEY_MODE_MAPPINGS ==
  [ major            |-> (0 :> "Maj") @@ (2 :> "Min") @@ (4 :> "Min") @@ (5 :> "Maj")
                         @@ (7 :> "Maj") @@ (9 :> "Min") @@ (11 :> "Dim"),
    natural_minor    |-> (0 :> "Min") @@ (2 :> "Dim") @@ (3 :> "Maj") @@ (5 :> "Min")
                         @@ (7 :> "Min") @@ (8 :> "Maj") @@ (10 :> "Maj"),
    harmonic_minor   |-> (0 :> "Min") @@ (2 :> "Dim") @@ (3 :> "Maj") @@ (5 :> "Min")
                         @@ (7 :> "Maj") @@ (8 :> "Maj") @@ (11 :> "Dim"),
    dorian           |-> (0 :> "Min") @@ (2 :> "Min") @@ (3 :> "Maj") @@ (5 :> "Maj")
                         @@ (7 :> "Min") @@ (9 :> "Dim") @@ (10 :> "Maj"),
    mixolydian       |-> (0 :> "Maj") @@ (2 :> "Min") @@ (4 :> "Dim") @@ (5 :> "Maj")
                         @@ (7 :> "Min") @@ (9 :> "Min") @@ (10 :> "Maj"),
    pentatonic_major |-> (0 :> "Maj") @@ (2 :> "Min") @@ (4 :> "Min") @@ (7 :> "Maj")
                         @@ (9 :> "Min"),
    pentatonic_minor |-> (0 :> "Min") @@ (3 :> "Maj") @@ (5 :> "Min") @@ (7 :> "Min")
                         @@ (10 :> "Maj"),
    blues            |-> (0 :> "Min") @@ (3 :> "Maj") @@ (5 :> "Min") @@ (6 :> "Dim")
                         @@ (7 :> "Min") @@ (10 :> "Maj") ]

NOTE_DIVISIONS ==
  ( "1/4" :> 1 ) @@ ( "1/8" :> 2 ) @@ ( "1/12" :> 3 ) @@ ( "1/16" :> 4 )
  @@ ( "1/24" :> 6 ) @@ ( "1/32" :> 8 )

\* MIDI_CHANNELS
CHORD == 0
PERFORMANCE == 1
BASS == 2
Channels == {CHORD, PERFORMANCE, BASS}

\* ----------------------------------------------------------- array helpers

Abs(x) == IF x < 0 THEN -x ELSE x
Min2(a, b) == IF a < b THEN a ELSE b
Max2(a, b) == IF a > b THEN a ELSE b

SetMin(S) == CHOOSE x \in S : \A y \in S : x <= y

RECURSIVE SetToSortedSeq(_)
SetToSortedSeq(S) ==
  IF S = {} THEN <<>> ELSE <<SetMin(S)>> \o SetToSortedSeq(S \ {SetMin(S)})

Range(s) == { s[i] : i \in DOMAIN s }

RECURSIVE Insert(_, _)
Insert(s, x) ==
  IF s = <<>> THEN <<x>>
  ELSE IF x < Head(s) THEN <<x>> \o s
  ELSE <<Head(s)>> \o Insert(Tail(s), x)

\* [...a].sort((a, b) => a - b)
RECURSIVE SortAsc(_)
SortAsc(s) == IF s = <<>> THEN <<>> ELSE Insert(SortAsc(Tail(s)), Head(s))

Reverse(s) == [ i \in 1..Len(s) |-> s[Len(s) + 1 - i] ]

MapPlus(s, d) == [ i \in 1..Len(s) |-> s[i] + d ]

InRange(n) == n >= 0 /\ n <= 127

\* ------------------------------------------------------- chord generation

\* generateChord without its filter(note => note >= 0 && note <= 127)
generateChordUnfiltered(rootNote, chordType, extensions) ==
  MapPlus(SetToSortedSeq(CHORD_INTERVALS[chordType] \cup
                         { EXTENSION_INTERVALS[e] :
                             e \in Range(extensions) \cap DOMAIN EXTENSION_INTERVALS }),
          rootNote)

generateChord(rootNote, chordType, extensions) ==
  LET allIntervals == CHORD_INTERVALS[chordType] \cup
                      { EXTENSION_INTERVALS[e] :
                          e \in Range(extensions) \cap DOMAIN EXTENSION_INTERVALS }
      midiNotes == MapPlus(SetToSortedSeq(allIntervals), rootNote)
  IN  SelectSeq(midiNotes, InRange)

\* "[...CHORD_INTERVALS[chordType]]": CHORD_INTERVALS has no such key, the
\* spread of undefined is a TypeError
generateChordThrows(chordType) == chordType \notin DOMAIN CHORD_INTERVALS

RECURSIVE VoiceSteps(_, _, _)
VoiceSteps(result, position, steps) ==
  IF steps = 0 THEN result
  ELSE IF position > 0
       THEN VoiceSteps(SortAsc(Append(Tail(result), Head(result) + 12)),
                       position, steps - 1)
       ELSE VoiceSteps(SortAsc(<<result[Len(result)] - 12>>
                               \o SubSeq(result, 1, Len(result) - 1)),
                       position, steps - 1)

\* applyVoicing that inverts upwards whatever the sign of the position
applyVoicingUpwards(notes, position) ==
  IF Len(notes) = 0 THEN notes
  ELSE SelectSeq(VoiceSteps(SortAsc(notes), Abs(position), Abs(position)), InRange)

applyVoicing(notes, position) ==
  IF Len(notes) = 0 THEN notes
  ELSE SelectSeq(VoiceSteps(SortAsc(notes), position, Abs(position)), InRange)

\* applyBassVoicing without its Math.max(24, Math.min(60, bassNote))
applyBassVoicingUnclamped(rootNote, bassOctave) == rootNote + bassOctave * 12

applyBassVoicing(rootNote, bassOctave) ==
  Max2(24, Min2(60, rootNote + bassOctave * 12))

\* ------------------------------------------------------------------ key mode

Distance(interval, degree) ==
  Min2(Abs(interval - degree),
       Min2(Abs(interval - degree + 12), Abs(interval - degree - 12)))

\* the loop "for (const degree of scaleDegrees) if (distance < minDistance)":
\* the first degree at the least distance (every distance is below 12)
NearestDegree(interval, scaleDegrees) ==
  LET best == CHOOSE i \in 1..Len(scaleDegrees) :
                /\ \A j \in 1..Len(scaleDegrees) :
                     Distance(interval, scaleDegrees[i])
                       <= Distance(interval, scaleDegrees[j])
                /\ \A j \in 1..(i - 1) :
                     Distance(interval, scaleDegrees[j])
                       > Distance(interval, scaleDegrees[i])
  IN  scaleDegrees[best]

quantizeToScale(interval, scaleDegrees) == NearestDegree(interval, scaleDegrees)

\* getKeyModeChordType once the mapping and the interval are at hand
MappedChordType(mapping, interval, scaleDegrees) ==
  IF interval \in DOMAIN mapping THEN mapping[interval]
  ELSE IF quantizeToScale(interval, scaleDegrees) \in DOMAIN mapping
  THEN mapping[quantizeToScale(interval, scaleDegrees)]
  ELSE "Maj"

getKeyModeChordType(pressedNote, keyRoot, scaleType) ==
  IF scaleType \notin DOMAIN KEY_MODE_MAPPINGS THEN "Maj"
  ELSE MappedChordType(KEY_MODE_MAPPINGS[scaleType],
                       ((pressedNote % 12) - keyRoot + 12) % 12,
                       SCALE_DEGREES[scaleType])

\* quantizeNoteToKey's choice of the octave: the nearer of the quantized
\* pitch class's notes, clamped to 0..127
NearestOctave(midiNote, noteInOctave, quantizedNoteInOctave) ==
  LET base == ((midiNote \div 12) * 12) + quantizedNoteInOctave
      quantizedNote ==
        IF quantizedNoteInOctave < noteInOctave
           /\ (noteInOctave - quantizedNoteInOctave) > 6 THEN base + 12
        ELSE IF quantizedNoteInOctave > noteInOctave
                /\ (quantizedNoteInOctave - noteInOctave) > 6 THEN base - 12
        ELSE base
  IN  Max2(0, Min2(127, quantizedNote))

\* QuantizedIn with "(keyRoot + nearestInterval) % 12" taken without the
\* key root
QuantizedInWithoutRoot(midiNote, keyRoot, scaleDegrees, interval) ==
  IF interval \in Range(scaleDegrees) THEN midiNote
  ELSE NearestOctave(midiNote, midiNote % 12,
                     NearestDegree(interval, scaleDegrees) % 12)

\* quantizeNoteToKey once the scale and the note's interval are at hand
QuantizedIn(midiNote, keyRoot, scaleDegrees, interval) ==
  IF interval \in Range(scaleDegrees) THEN midiNote
  ELSE NearestOctave(midiNote, midiNote % 12,
                     (keyRoot + NearestDegree(interval, scaleDegrees)) % 12)

quantizeNoteToKey(midiNote, keyRoot, scaleType) ==
  IF scaleType \notin DOMAIN SCALE_DEGREES THEN midiNote
  ELSE QuantizedIn(midiNote, keyRoot, SCALE_DEGREES[scaleType],
                   (((midiNote % 12) - keyRoot) + 12) % 12)

\* ------------------------------------------------------ performance engine

\* Math.random(): the samples drawn, in quarters (0, 1/4, 1/2, 3/4); a call
\* that needs random numbers is handed a stream of them
RandomQuarters == {0, 1, 2, 3}

Draw(rnd, i) == rnd[((i - 1) % Len(rnd)) + 1]

\* an event of a generator; durationMs 0 stands for "no durationMs" (both
\* are falsy where scheduleBatch tests it)
Event(note, velocity, delayMs, durationMs) ==
  [ note |-> note, velocity |-> velocity, delayMs |-> delayMs,
    durationMs |-> durationMs, channel |-> PERFORMANCE ]

NotAbove127(n) == n <= 127

\* generateStrum without its sort: the notes in the order given
generateStrumAsGiven(notes, dialPosition, velocity, twoOctaves, slop, rnd) ==
  LET sequence == IF twoOctaves
                  THEN notes \o SelectSeq(MapPlus(notes, 12), NotAbove127)
                  ELSE notes
      delayPerNote127 == 10 * 127 + (127 - dialPosition) * (100 - 10)
      offset508(i) == (2 * Draw(rnd, i) - 4) * slop * 50
      timing(i) == IF slop > 0
                   THEN Max2(0, ((i - 1) * delayPerNote127 * 4 + offset508(i))
                                  \div (127 * 4))
                   ELSE ((i - 1) * delayPerNote127) \div 127
  IN  [ i \in 1..Len(sequence) |-> Event(sequence[i], velocity, timing(i), 0) ]

generateStrum(notes, dialPosition, velocity, twoOctaves, slop, rnd) ==
  LET sorted == SortAsc(notes)
      sequence == IF twoOctaves
                  THEN SortAsc(sorted \o SelectSeq(MapPlus(sorted, 12), NotAbove127))
                  ELSE sorted
      \* delayPerNote = MIN_DELAY + ((127 - dial) / 127) * (MAX_DELAY - MIN_DELAY),
      \* times 127
      delayPerNote127 == 10 * 127 + (127 - dialPosition) * (100 - 10)
      \* (Math.random() - 0.5) * 2 * maxSlopMs, times 127 * 4
      offset508(i) == (2 * Draw(rnd, i) - 4) * slop * 50
      timing(i) == IF slop > 0
                   THEN Max2(0, ((i - 1) * delayPerNote127 * 4 + offset508(i))
                                  \div (127 * 4))
                   ELSE ((i - 1) * delayPerNote127) \div 127
  IN  [ i \in 1..Len(sequence) |-> Event(sequence[i], velocity, timing(i), 0) ]

\* Fisher-Yates: for i = length-1 down to 1, swap array[i], array[j] with
\* j = floor(Math.random() * (i + 1)); indices here are 1-based
RECURSIVE ShuffleFrom(_, _, _)
ShuffleFrom(array, i, rnd) ==
  IF i <= 1 THEN array
  ELSE LET j == ((Draw(rnd, Len(array) + 1 - i) * i) \div 4) + 1
           swapped == [ array EXCEPT ![i] = array[j], ![j] = array[i] ]
       IN  ShuffleFrom(swapped, i - 1, rnd)

shuffleArray(array, rnd) == ShuffleFrom(array, Len(array), rnd)

\* applyArpPattern whose default case returns the notes as they were given
applyArpPatternAsGiven(notes, pattern, rnd) ==
  LET sorted == SortAsc(notes)
      reversed == Reverse(sorted)
  IN  CASE pattern = "up" -> sorted
        [] pattern = "down" -> reversed
        [] pattern = "upDown" ->
             IF Len(sorted) <= 1 THEN sorted
             ELSE sorted \o Reverse(SubSeq(sorted, 2, Len(sorted) - 1))
        [] pattern = "downUp" ->
             IF Len(sorted) <= 1 THEN sorted
             ELSE reversed \o Reverse(SubSeq(reversed, 2, Len(reversed) - 1))
        [] pattern = "random" -> shuffleArray(sorted, rnd)
        [] OTHER -> notes

\* applyArpPattern whose returning pass repeats both endpoints
applyArpPatternWithEndpoints(notes, pattern, rnd) ==
  LET sorted == SortAsc(notes)
      reversed == Reverse(sorted)
  IN  CASE pattern = "up" -> sorted
        [] pattern = "down" -> reversed
        [] pattern = "upDown" ->
             IF Len(sorted) <= 1 THEN sorted ELSE sorted \o reversed
        [] pattern = "downUp" ->
             IF Len(sorted) <= 1 THEN sorted ELSE reversed \o sorted
        [] pattern = "random" -> shuffleArray(sorted, rnd)
        [] OTHER -> sorted

applyArpPattern(notes, pattern, rnd) ==
  LET sorted == SortAsc(notes)
      reversed == Reverse(sorted)
  IN  CASE pattern = "up" -> sorted
        [] pattern = "down" -> reversed
        [] pattern = "upDown" ->
             IF Len(sorted) <= 1 THEN sorted
             ELSE sorted \o Reverse(SubSeq(sorted, 2, Len(sorted) - 1))
        [] pattern = "downUp" ->
             IF Len(sorted) <= 1 THEN sorted
             ELSE reversed \o Reverse(SubSeq(reversed, 2, Len(reversed) - 1))
        [] pattern = "random" -> shuffleArray(sorted, rnd)
        [] OTHER -> sorted

\* generateArpeggio once its sequence is made
ArpEvents(sequence, bpm, divisor, velocity) ==
  \* stepMs = (60000 / bpm) / divisor; gateMs = stepMs * 0.85
  LET stepMs(k) == (k * 60000) \div (bpm * divisor)
      gateMs == (60000 * 85) \div (bpm * divisor * 100)
  IN  [ sequence |-> [ i \in 1..Len(sequence) |->
                         Event(sequence[i], velocity, stepMs(i - 1), gateMs) ],
        totalDurationMs |-> stepMs(Len(sequence)) ]

\* the two passes sorted together, as generateStrum does
ArpSequenceSorted(base, twoOctaves) ==
  IF twoOctaves THEN SortAsc(base \o SelectSeq(MapPlus(base, 12), NotAbove127))
  ELSE base

\* "if (twoOctaves) sequence = [...sequence, ...upperOctave]"
ArpSequence(base, twoOctaves) ==
  IF twoOctaves THEN base \o SelectSeq(MapPlus(base, 12), NotAbove127) ELSE base

generateArpeggio(notes, bpm, pattern, division, velocity, twoOctaves, rnd) ==
  ArpEvents(ArpSequence(applyArpPattern(notes, pattern, rnd), twoOctaves),
            bpm, NOTE_DIVISIONS[division], velocity)

generateHarp(notes, bpm, velocity) ==
  LET baseNotes == SortAsc(notes)
      octave(k) == SelectSeq(MapPlus(baseNotes, k * 12), NotAbove127)
      expanded == SortAsc(octave(0) \o octave(1) \o octave(2) \o octave(3))
      \* intervalMs = (60000 / bpm) / 16
      intervalMs(k) == (k * 60000) \div (bpm * 16)
  IN  [ i \in 1..Len(expanded) |->
          Event(expanded[i], velocity, intervalMs(i - 1), 0) ]

\* getChordDisplayName: names are strings, joined with \o
getChordDisplayName(rootNote, chordType, extensions) ==
  LET NOTE_NAMES == <<"C", "C#", "D", "D#", "E", "F", "F#", "G", "G#", "A",
                      "A#", "B">>
      RECURSIVE join(_)
      join(strings) == IF strings = <<>> THEN ""
                       ELSE Head(strings) \o join(Tail(strings))
      root == NOTE_NAMES[(rootNote % 12) + 1]
      \* "if (chordType === 'Maj' && extensions.includes('m7'))"
      otherExts == SelectSeq(extensions, LAMBDA e : e # "m7")
      name == CASE chordType = "Min" -> root \o "m"
                [] chordType = "Sus" -> root \o "sus4"
                [] chordType = "Dim" -> root \o "dim"
                [] OTHER -> root
      extCount == Len(extensions)
  IN  IF chordType = "Maj" /\ "m7" \in Range(extensions)
      THEN root \o "7" \o join(otherExts)
      ELSE CASE extCount = 0 -> name
             [] extCount = 1 -> name \o extensions[1]
             [] extCount = 2 -> name \o join(extensions)
             [] extCount = 3 -> name \o " JAZZ"
             [] extCount = 4 -> name \o " ???"
             [] OTHER -> name \o " WTF?"

\* -------------------------------------------------------------- OrchardMIDI
\* A value M of the class: output, pendingTimeouts (the timers of the list
\* that have not fired yet, in creation order), activeNotes (per channel,
\* the Set's elements in insertion order); and what one step did with it:
\* sent (the messages passed to output.send), again (noteOn was executed for
\* a note already in the registry), cancelled (cancelPending ran), dropped
\* (the kinds of the timers it cleared); and silenced, the channels that
\* allNotesOff was called for with no scheduleBatch since.

NewMIDI ==
  [ output |-> NULL, pendingTimeouts |-> <<>>,
    activeNotes |-> [ ch \in Channels |-> <<>> ],
    sent |-> <<>>, again |-> FALSE, cancelled |-> FALSE, dropped |-> {},
    silenced |-> {} ]

Has(s, x) == \E i \in DOMAIN s : s[i] = x

\* Set.prototype.add / delete on the insertion-ordered elements
SetAdd(s, x) == IF Has(s, x) THEN s ELSE Append(s, x)
SetDelete(s, x) == SelectSeq(s, LAMBDA y : y # x)

Msg(type, channel, note, velocity) ==
  [ type |-> type, channel |-> channel,
    note |-> IF note < 0 THEN 0 ELSE note % 128,   \* NaN & 0x7F is 0
    velocity |-> velocity % 128 ]

selectOutput(M, output) == [ M EXCEPT !.output = output ]

\* noteOn without its "if (!this.output) return"
noteOnUnchecked(M, channel, note, velocity) ==
  [ M EXCEPT !.sent = Append(@, Msg("on", channel, note, velocity)),
             !.again = @ \/ Has(M.activeNotes[channel], note),
             !.activeNotes[channel] = SetAdd(@, note) ]

noteOn(M, channel, note, velocity) ==
  IF M.output = NULL THEN M
  ELSE [ M EXCEPT !.sent = Append(@, Msg("on", channel, note, velocity)),
                  !.again = @ \/ Has(M.activeNotes[channel], note),
                  !.activeNotes[channel] = SetAdd(@, note) ]

noteOff(M, channel, note) ==
  IF M.output = NULL THEN M
  ELSE [ M EXCEPT !.sent = Append(@, Msg("off", channel, note, 0)),
                  !.activeNotes[channel] = SetDelete(@, note) ]

RECURSIVE NoteOffEach(_, _, _)
NoteOffEach(M, channel, notes) ==
  IF notes = <<>> THEN M
  ELSE NoteOffEach(noteOff(M, channel, Head(notes)), channel, Tail(notes))

allNotesOff(M, channel) ==
  [ NoteOffEach(M, channel, M.activeNotes[channel]) EXCEPT
      !.silenced = @ \cup {channel} ]

\* cancelPending clearing the note timers only, not the arp loop's kickoff
cancelPendingNoteTimers(M) ==
  [ M EXCEPT !.pendingTimeouts = SelectSeq(@, LAMBDA t : t.kind = "loop"),
             !.cancelled = TRUE,
             !.dropped = @ \cup ({ M.pendingTimeouts[i].kind :
                                     i \in DOMAIN M.pendingTimeouts } \ {"loop"}) ]

cancelPending(M) ==
  [ M EXCEPT !.pendingTimeouts = <<>>, !.cancelled = TRUE,
             !.dropped = @ \cup { M.pendingTimeouts[i].kind :
                                    i \in DOMAIN M.pendingTimeouts } ]

\* a timer of setTimeout: kind "event" runs scheduleBatch's callback for one
\* event, kind "off" the note-off it registers, kind "loop" the arp loop's
\* kickoff (twoOctaves and totalDurationMs are what its closure captured)
Timer(kind, type, channel, note, velocity, durationMs, due, twoOctaves, total) ==
  [ kind |-> kind, type |-> type, channel |-> channel, note |-> note,
    velocity |-> velocity, durationMs |-> durationMs, due |-> due,
    twoOctaves |-> twoOctaves, totalDurationMs |-> total, fresh |-> TRUE ]

EventTimer(e) ==
  Timer("event", e.type, e.channel, e.note, e.velocity, e.durationMs,
        e.timestamp, FALSE, 0)

OffTimer(t) ==
  Timer("off", "noteOff", t.channel, t.note, 0, 0, t.durationMs, FALSE, 0)

scheduleBatch(M, events, cancelPrevious) ==
  LET M1 == IF cancelPrevious THEN cancelPending(M) ELSE M
  IN  [ M1 EXCEPT !.pendingTimeouts =
                    @ \o [ i \in 1..Len(events) |-> EventTimer(events[i]) ],
                  !.silenced = {} ]

\* the callback without the note-off it registers for an event's duration
EventCallbackNoteOnOnly(M, t) ==
  IF t.type = "noteOn" THEN noteOn(M, t.channel, t.note, t.velocity)
  ELSE noteOff(M, t.channel, t.note)

\* the callback scheduleBatch gives setTimeout, run for timer t
EventCallback(M, t) ==
  IF t.type = "noteOn"
  THEN LET M1 == noteOn(M, t.channel, t.note, t.velocity)
       IN  IF t.durationMs # 0
           THEN [ M1 EXCEPT !.pendingTimeouts = Append(@, OffTimer(t)) ]
           ELSE M1
  ELSE noteOff(M, t.channel, t.note)

OffCallback(M, t) == noteOff(M, t.channel, t.note)

\* the timer that fires next: the least time left, the earliest created
NextDue(timers) ==
  CHOOSE i \in 1..Len(timers) :
    /\ \A j \in 1..Len(timers) : timers[i].due <= timers[j].due
    /\ \A j \in 1..(i - 1) : timers[j].due > timers[i].due

\* the list once timer i has been taken out to run: the time it waited for
\* has passed for the others too
AfterDue(timers, i) ==
  LET rest == [ j \in 1..(Len(timers) - 1) |->
                  IF j < i THEN timers[j] ELSE timers[j + 1] ]
  IN  [ j \in 1..Len(rest) |-> [ rest[j] EXCEPT !.due = @ - timers[i].due ] ]

\* what a step starts from: nothing sent yet, every timer an earlier one
Begin(M) ==
  [ M EXCEPT !.sent = <<>>, !.again = FALSE, !.cancelled = FALSE, !.dropped = {},
             !.pendingTimeouts = [ j \in 1..Len(@) |-> [ @[j] EXCEPT !.fresh = FALSE ] ] ]

\* ------------------------------------------------------------ OrchardEngine

\* activeKey: null, activeMidiNote: null
NoNote == -1
\* applyBassVoicing(undefined, ...) when the voiced chord is empty
NaN == -2

KeySettings(enabled, root, scale) ==
  [ enabled |-> enabled, root |-> root, scale |-> scale ]

Zone(mode) ==
  [ mode |-> mode, chordType |-> "", playstyle |-> "advanced",
    performanceMode |-> "off",
    keyMode |-> KeySettings(FALSE, 0, "major"),
    quantize |-> KeySettings(FALSE, 0, "major") ]

getDefaultState ==
  [ keyMode |-> KeySettings(FALSE, 0, "major"),
    quantize |-> KeySettings(FALSE, 0, "major"),
    playstyle |-> "advanced",
    performanceMode |-> "off",
    voicingPosition |-> 0,
    bassOctave |-> 0,
    performanceDial |-> 64,
    bpm |-> 120,
    arpPattern |-> "up",
    arpDivision |-> "1/8",
    activeKey |-> NoNote,
    activeMidiNote |-> NoNote,
    activeChordType |-> NULL,
    activeExtensions |-> <<>>,
    currentChord |-> <<>>,
    velocity |-> 100,
    suppressRoot |-> FALSE,
    globalMode |-> "chord",
    split |-> [ enabled |-> FALSE, point |-> 60,
                lower |-> Zone("chord"), upper |-> Zone("off") ],
    passThroughNotes |-> {},
    \* a Map, created at the first quantized note-on: the empty function here
    quantizedNoteMap |-> <<>> ]

getModeForNote(S, midiNote) ==
  IF ~S.split.enabled THEN S.globalMode
  ELSE IF midiNote < S.split.point THEN S.split.lower.mode
  ELSE S.split.upper.mode

\* getZoneForNote with the split point itself in the lower zone
getZoneForNoteInclusive(S, midiNote) ==
  IF midiNote <= S.split.point THEN S.split.lower ELSE S.split.upper

getZoneForNote(S, midiNote) ==
  IF midiNote < S.split.point THEN S.split.lower ELSE S.split.upper

\* zone.chordType || null
getZoneChordType(S, midiNote) ==
  IF ~S.split.enabled THEN NULL
  ELSE IF getZoneForNote(S, midiNote).chordType = "" THEN NULL
  ELSE getZoneForNote(S, midiNote).chordType

getEffectiveSettings(S, midiNote) ==
  IF ~S.split.enabled
  THEN [ playstyle |-> S.playstyle, performanceMode |-> S.performanceMode,
         keyMode |-> S.keyMode, quantize |-> S.quantize ]
  ELSE LET zone == getZoneForNote(S, midiNote)
       IN  [ playstyle |-> zone.playstyle, performanceMode |-> zone.performanceMode,
             keyMode |-> zone.keyMode, quantize |-> zone.quantize ]

RECURSIVE NoteOnEach(_, _, _, _)
NoteOnEach(M, channel, notes, velocity) ==
  IF notes = <<>> THEN M
  ELSE NoteOnEach(noteOn(M, channel, Head(notes), velocity), channel,
                  Tail(notes), velocity)

\* the events of a generator as scheduleBatch takes them
MidiEvents(events) ==
  [ i \in 1..Len(events) |->
      [ type |-> "noteOn", channel |-> events[i].channel, note |-> events[i].note,
        velocity |-> events[i].velocity, timestamp |-> events[i].delayMs,
        durationMs |-> events[i].durationMs ] ]

\* "if (settings.quantize.enabled) rootNote = quantizeNoteToKey(...)"
QuantizedRoot(rootNote, settings) ==
  IF settings.quantize.enabled
  THEN quantizeNoteToKey(rootNote, settings.quantize.root, settings.quantize.scale)
  ELSE rootNote

\* "... keyNote = rootNote % 12", rootNote the quantized one
QuantizedKey(S, rootNote, settings) ==
  IF settings.quantize.enabled THEN rootNote % 12 ELSE S.activeKey

\* the manual chord type: the button's, or key mode's when none is active
ManualChordType(S, keyNote, settings) ==
  IF S.activeChordType = NULL /\ settings.keyMode.enabled
  THEN getKeyModeChordType(keyNote, settings.keyMode.root, settings.keyMode.scale)
  ELSE S.activeChordType

\* generateCurrentArpNotes from "if (!chordType) return [rootNote]" on
ArpNotesOfChord(S, rootNote, chordType) ==
  IF chordType = NULL THEN [ none |-> FALSE, notes |-> <<rootNote>> ]
  ELSE IF S.suppressRoot
  THEN [ none |-> FALSE,
         notes |-> SelectSeq(applyVoicing(generateChord(rootNote, chordType,
                                                        S.activeExtensions),
                                          S.voicingPosition),
                             LAMBDA n : (n % 12) # (rootNote % 12)) ]
  ELSE [ none |-> FALSE,
         notes |-> applyVoicing(generateChord(rootNote, chordType,
                                              S.activeExtensions),
                                S.voicingPosition) ]

\* generateCurrentArpNotes from the quantized rootNote on
ArpNotesFromRoot(S, rootNote, settings) ==
  ArpNotesOfChord(S, rootNote,
                  ManualChordType(S, QuantizedKey(S, rootNote, settings), settings))

\* generateCurrentArpNotes from the effective settings on
ArpNotesWithSettings(S, rootNote, settings) ==
  ArpNotesFromRoot(S, QuantizedRoot(rootNote, settings), settings)

\* generateCurrentArpNotes from its first rootNote on
ArpNotesAt(S, rootNote) ==
  ArpNotesWithSettings(S, rootNote, getEffectiveSettings(S, rootNote))

\* the notes of the next arp cycle: none is the null it returns with no
\* active key
generateCurrentArpNotes(S) ==
  IF S.activeKey = NoNote THEN [ none |-> TRUE, notes |-> <<>> ]
  ELSE ArpNotesAt(S, IF S.activeMidiNote # NoNote THEN S.activeMidiNote
                     ELSE S.activeKey + 48)

\* playSequence once generateArpeggio has returned arpResult
PlayArpResult(M, arpResult) ==
  [ midi |-> scheduleBatch(M, MidiEvents(arpResult.sequence), FALSE),
    totalDurationMs |-> arpResult.totalDurationMs ]

\* playSequence once generateCurrentArpNotes has returned currentNotes
PlayNotes(S, M, currentNotes, twoOctaves, rnd) ==
  IF currentNotes.none THEN [ midi |-> M, totalDurationMs |-> 0 ]
  ELSE PlayArpResult(M, generateArpeggio(currentNotes.notes, S.bpm, S.arpPattern,
                                         S.arpDivision, S.velocity, twoOctaves, rnd))

\* startArpLoop's playSequence: the cycle's batch, not cancelling; the total
\* it returns is 0 for the null of "no notes"
playSequence(S, M, twoOctaves, rnd) ==
  PlayNotes(S, M, generateCurrentArpNotes(S), twoOctaves, rnd)

\* startArpLoop's scheduleNext: the kickoff of the next cycle, after the
\* totalDurationMs of the loop's first cycle
scheduleNext(M, twoOctaves, totalDurationMs) ==
  [ M EXCEPT !.pendingTimeouts =
      Append(@, Timer("loop", "loop", PERFORMANCE, 0, 0, 0, totalDurationMs,
                      twoOctaves, totalDurationMs)) ]

\* "if (totalDurationMs) scheduleNext()" after the cycle played
LoopAfter(played, twoOctaves, totalDurationMs) ==
  IF played.totalDurationMs # 0
  THEN scheduleNext(played.midi, twoOctaves, totalDurationMs)
  ELSE played.midi

\* startArpLoop once its first playSequence has returned
StartedLoop(first, twoOctaves) ==
  LoopAfter(first, twoOctaves, first.totalDurationMs)

startArpLoop(S, M, twoOctaves, rnd) ==
  StartedLoop(playSequence(S, M, twoOctaves, rnd), twoOctaves)

\* the loop's callback playing its cycle without scheduling the next one
LoopCallbackOnce(S, M, t, rnd) ==
  IF S.activeKey # NoNote THEN playSequence(S, M, t.twoOctaves, rnd).midi ELSE M

\* the callback of the loop's timer t
LoopCallback(S, M, t, rnd) ==
  IF S.activeKey # NoNote
  THEN LoopAfter(playSequence(S, M, t.twoOctaves, rnd), t.twoOctaves,
                 t.totalDurationMs)
  ELSE M

sendOutput(S, M, notes, velocity, rootNote, settings, rnd) ==
  LET perfMode == settings.performanceMode
      rootPitchClass == rootNote % 12
      filterRoot(noteArray) ==
        IF ~S.suppressRoot THEN noteArray
        ELSE SelectSeq(noteArray, LAMBDA n : (n % 12) # rootPitchClass)
      M1 == NoteOnEach(allNotesOff(M, CHORD), CHORD, filterRoot(notes), velocity)
      bassNote == IF notes = <<>> THEN NaN
                  ELSE applyBassVoicing(notes[1], S.bassOctave)
      M2 == allNotesOff(M1, BASS)
      M3 == IF ~S.suppressRoot THEN noteOn(M2, BASS, bassNote, velocity) ELSE M2
      M4 == allNotesOff(cancelPending(M3), PERFORMANCE)
      filteredNotes == filterRoot(notes)
  IN  CASE perfMode = "strum" ->
             scheduleBatch(M4, MidiEvents(generateStrum(filteredNotes,
                 S.performanceDial, velocity, FALSE, 0, rnd)), TRUE)
        [] perfMode = "strum2oct" ->
             scheduleBatch(M4, MidiEvents(generateStrum(filteredNotes,
                 S.performanceDial, velocity, TRUE, 0, rnd)), TRUE)
        [] perfMode = "slop" ->
             scheduleBatch(M4, MidiEvents(generateStrum(filteredNotes,
                 S.performanceDial, velocity, FALSE, S.performanceDial, rnd)), TRUE)
        [] perfMode \in {"arp", "arp2oct"} ->
             startArpLoop(S, M4, perfMode = "arp2oct", rnd)
        [] perfMode = "harp" ->
             scheduleBatch(M4, MidiEvents(generateHarp(filteredNotes, S.bpm,
                                                       velocity)), TRUE)
        [] OTHER -> M4

\* updateOutputWithOptions from "this.state.currentChord = ..." on
OutputOfChord(S, M, velocity, rootNote, settings, output, rnd) ==
  [ state |-> [ S EXCEPT !.currentChord = output ],
    midi |-> sendOutput([ S EXCEPT !.currentChord = output ], M, output, velocity,
                        rootNote, settings, rnd) ]

\* zone override > manual selection > key mode auto
EffectiveChordType(S, zoneChordType, keyNote, settings) ==
  IF zoneChordType = "auto"
  THEN getKeyModeChordType(keyNote, settings.keyMode.root, settings.keyMode.scale)
  ELSE IF zoneChordType # NULL THEN zoneChordType
  ELSE ManualChordType(S, keyNote, settings)

\* the voiced chord, or the root alone with no chord type
ChordOutput(S, rootNote, chordType) ==
  IF chordType # NULL
  THEN applyVoicing(generateChord(rootNote, chordType, S.activeExtensions),
                    S.voicingPosition)
  ELSE <<rootNote>>

\* updateOutputWithOptions from the quantized rootNote on
OutputFromRoot(S, M, velocity, zoneChordType, rootNote, settings, rnd) ==
  OutputOfChord(S, M, velocity, rootNote, settings,
                ChordOutput(S, rootNote,
                            EffectiveChordType(S, zoneChordType,
                                               QuantizedKey(S, rootNote, settings),
                                               settings)),
                rnd)

\* updateOutputWithOptions from the effective settings on
OutputWithSettings(S, M, velocity, zoneChordType, rootNote, settings, rnd) ==
  OutputFromRoot(S, M, velocity, zoneChordType, QuantizedRoot(rootNote, settings),
                 settings, rnd)

\* updateOutputWithOptions from its first rootNote on
OutputAt(S, M, velocity, zoneChordType, rootNote, rnd) ==
  OutputWithSettings(S, M, velocity, zoneChordType, rootNote,
                     getEffectiveSettings(S, rootNote), rnd)

\* updateOutputWithOptions without its "if (activeKey === null) return"
updateOutputWithOptionsUnguarded(S, M, velocity, midiNote, zoneChordType, rnd) ==
  OutputAt(S, M, velocity, zoneChordType,
           IF midiNote # NoNote THEN midiNote ELSE S.activeKey + 48, rnd)

updateOutputWithOptions(S, M, velocity, midiNote, zoneChordType, rnd) ==
  IF S.activeKey = NoNote THEN [ state |-> S, midi |-> M ]
  ELSE OutputAt(S, M, velocity, zoneChordType,
                IF midiNote # NoNote THEN midiNote ELSE S.activeKey + 48, rnd)

updateOutput(S, M, velocity, rnd) ==
  updateOutputWithOptions(S, M, velocity, NoNote, NULL, rnd)

\* stopOutput without its this.midi.allNotesOff(MIDI_CHANNELS.BASS)
stopOutputLeavingBass(S, M) ==
  LET M1 == cancelPending(M)
      M2 == allNotesOff(M1, CHORD)
      M3 == allNotesOff(M2, PERFORMANCE)
  IN  [ state |-> [ S EXCEPT !.currentChord = <<>> ], midi |-> M3 ]

\* stopOutput without its this.midi.cancelPending()
stopOutputKeepingTimers(S, M) ==
  LET M2 == allNotesOff(M, CHORD)
      M3 == allNotesOff(M2, PERFORMANCE)
      M4 == allNotesOff(M3, BASS)
  IN  [ state |-> [ S EXCEPT !.currentChord = <<>> ], midi |-> M4 ]

stopOutput(S, M) ==
  LET M1 == cancelPending(M)
      M2 == allNotesOff(M1, CHORD)
      M3 == allNotesOff(M2, PERFORMANCE)
      M4 == allNotesOff(M3, BASS)
  IN  [ state |-> [ S EXCEPT !.currentChord = <<>> ], midi |-> M4 ]

MapSet(m, k, v) == [ x \in DOMAIN m \cup {k} |-> IF x = k THEN v ELSE m[x] ]
MapDelete(m, k) == [ x \in DOMAIN m \ {k} |-> m[x] ]

\* onMIDINoteOn taking a pass-through key for the active note as well
onMIDINoteOnPassThroughActive(S, M, midiNote, velocity, rnd) ==
  LET keyNote == midiNote % 12
      mode == getModeForNote(S, midiNote)
      settings == getEffectiveSettings(S, midiNote)
      outputNote == quantizeNoteToKey(midiNote, settings.quantize.root,
                                      settings.quantize.scale)
      S1 == [ S EXCEPT !.activeMidiNote = midiNote, !.activeKey = keyNote,
                       !.velocity = velocity ]
  IN  IF mode = "off"
      THEN [ state |-> [ S1 EXCEPT !.passThroughNotes = @ \cup {midiNote} ],
             midi |-> noteOn(M, CHORD, midiNote, velocity) ]
      ELSE IF mode = "quantize"
      THEN [ state |-> [ S EXCEPT !.passThroughNotes = @ \cup {midiNote},
                                  !.quantizedNoteMap = MapSet(@, midiNote, outputNote) ],
             midi |-> noteOn(M, CHORD, outputNote, velocity) ]
      ELSE updateOutputWithOptions(S1, M, velocity, midiNote,
                                   getZoneChordType(S1, midiNote), rnd)

onMIDINoteOn(S, M, midiNote, velocity, rnd) ==
  LET keyNote == midiNote % 12
      mode == getModeForNote(S, midiNote)
      settings == getEffectiveSettings(S, midiNote)
      outputNote == quantizeNoteToKey(midiNote, settings.quantize.root,
                                      settings.quantize.scale)
      S1 == [ S EXCEPT !.activeMidiNote = midiNote, !.activeKey = keyNote,
                       !.velocity = velocity ]
  IN  IF mode = "off"
      THEN [ state |-> [ S EXCEPT !.passThroughNotes = @ \cup {midiNote} ],
             midi |-> noteOn(M, CHORD, midiNote, velocity) ]
      ELSE IF mode = "quantize"
      THEN [ state |-> [ S EXCEPT !.passThroughNotes = @ \cup {midiNote},
                                  !.quantizedNoteMap = MapSet(@, midiNote, outputNote) ],
             midi |-> noteOn(M, CHORD, outputNote, velocity) ]
      ELSE updateOutputWithOptions(S1, M, velocity, midiNote,
                                   getZoneChordType(S1, midiNote), rnd)

\* onMIDINoteOff quantizing the released key again, under the settings of
\* the release, instead of looking the note up in quantizedNoteMap
onMIDINoteOffRequantizing(S, M, midiNote) ==
  IF midiNote \in S.passThroughNotes
  THEN LET S1 == [ S EXCEPT !.passThroughNotes = @ \ {midiNote} ]
           settings == getEffectiveSettings(S, midiNote)
       IN  IF midiNote \in DOMAIN S.quantizedNoteMap
           THEN [ state |-> [ S1 EXCEPT !.quantizedNoteMap = MapDelete(@, midiNote) ],
                  midi |-> noteOff(M, CHORD,
                                   quantizeNoteToKey(midiNote, settings.quantize.root,
                                                     settings.quantize.scale)) ]
           ELSE [ state |-> S1, midi |-> noteOff(M, CHORD, midiNote) ]
  ELSE IF S.activeMidiNote = midiNote
  THEN LET stopped == stopOutput(S, M)
       IN  [ state |-> [ stopped.state EXCEPT !.activeKey = NoNote,
                                              !.activeMidiNote = NoNote ],
             midi |-> stopped.midi ]
  ELSE [ state |-> S, midi |-> M ]

\* onMIDINoteOff stopping the output for every released chord key, the
\* active one or not
onMIDINoteOffStoppingAny(S, M, midiNote) ==
  IF midiNote \in S.passThroughNotes
  THEN LET S1 == [ S EXCEPT !.passThroughNotes = @ \ {midiNote} ]
       IN  IF midiNote \in DOMAIN S.quantizedNoteMap
           THEN [ state |-> [ S1 EXCEPT !.quantizedNoteMap = MapDelete(@, midiNote) ],
                  midi |-> noteOff(M, CHORD, S.quantizedNoteMap[midiNote]) ]
           ELSE [ state |-> S1, midi |-> noteOff(M, CHORD, midiNote) ]
  ELSE LET stopped == stopOutput(S, M)
       IN  [ state |-> [ stopped.state EXCEPT !.activeKey = NoNote,
                                              !.activeMidiNote = NoNote ],
             midi |-> stopped.midi ]

\* onMIDINoteOff without its this.state.quantizedNoteMap.delete(midiNote)
onMIDINoteOffKeepingMap(S, M, midiNote) ==
  IF midiNote \in S.passThroughNotes
  THEN LET S1 == [ S EXCEPT !.passThroughNotes = @ \ {midiNote} ]
       IN  IF midiNote \in DOMAIN S.quantizedNoteMap
           THEN [ state |-> S1,
                  midi |-> noteOff(M, CHORD, S.quantizedNoteMap[midiNote]) ]
           ELSE [ state |-> S1, midi |-> noteOff(M, CHORD, midiNote) ]
  ELSE IF S.activeMidiNote = midiNote
  THEN LET stopped == stopOutput(S, M)
       IN  [ state |-> [ stopped.state EXCEPT !.activeKey = NoNote,
                                              !.activeMidiNote = NoNote ],
             midi |-> stopped.midi ]
  ELSE [ state |-> S, midi |-> M ]

onMIDINoteOff(S, M, midiNote) ==
  IF midiNote \in S.passThroughNotes
  THEN LET S1 == [ S EXCEPT !.passThroughNotes = @ \ {midiNote} ]
       IN  IF midiNote \in DOMAIN S.quantizedNoteMap
           THEN [ state |-> [ S1 EXCEPT !.quantizedNoteMap = MapDelete(@, midiNote) ],
                  midi |-> noteOff(M, CHORD, S.quantizedNoteMap[midiNote]) ]
           ELSE [ state |-> S1, midi |-> noteOff(M, CHORD, midiNote) ]
  ELSE IF S.activeMidiNote = midiNote
  THEN LET stopped == stopOutput(S, M)
       IN  [ state |-> [ stopped.state EXCEPT !.activeKey = NoNote,
                                              !.activeMidiNote = NoNote ],
             midi |-> stopped.midi ]
  ELSE [ state |-> S, midi |-> M ]

\* onChordType calling updateOutput() with its default velocity of 100
onChordTypeDefaultVelocity(S, M, chordType, isPressed, rnd) ==
  LET effectiveNote == IF S.activeMidiNote # NoNote THEN S.activeMidiNote ELSE 60
      settings == getEffectiveSettings(S, effectiveNote)
      S1 == IF isPressed THEN [ S EXCEPT !.activeChordType = chordType ]
            ELSE IF settings.playstyle = "free"
            THEN [ S EXCEPT !.activeChordType = NULL ]
            ELSE S
  IN  IF S1.activeKey # NoNote THEN updateOutput(S1, M, 100, rnd)
      ELSE [ state |-> S1, midi |-> M ]

onChordType(S, M, chordType, isPressed, rnd) ==
  LET effectiveNote == IF S.activeMidiNote # NoNote THEN S.activeMidiNote ELSE 60
      settings == getEffectiveSettings(S, effectiveNote)
      S1 == IF isPressed THEN [ S EXCEPT !.activeChordType = chordType ]
            ELSE IF settings.playstyle = "free"
            THEN [ S EXCEPT !.activeChordType = NULL ]
            ELSE S
  IN  IF S1.activeKey # NoNote THEN updateOutput(S1, M, S1.velocity, rnd)
      ELSE [ state |-> S1, midi |-> M ]

onExtension(S, M, extension, isPressed, rnd) ==
  LET S1 == IF isPressed
            THEN IF Has(S.activeExtensions, extension) THEN S
                 ELSE [ S EXCEPT !.activeExtensions = Append(@, extension) ]
            ELSE [ S EXCEPT !.activeExtensions =
                               SelectSeq(@, LAMBDA e : e # extension) ]
      effectiveNote == IF S1.activeMidiNote # NoNote THEN S1.activeMidiNote ELSE 60
      settings == getEffectiveSettings(S1, effectiveNote)
      isArpMode == settings.performanceMode \in {"arp", "arp2oct"}
  IN  IF S1.activeKey # NoNote /\ ~isArpMode
      THEN updateOutput(S1, M, S1.velocity, rnd)
      ELSE [ state |-> S1, midi |-> M ]

\* ------------------------------------------------------------------ inputs

Keys == {55, 62}
Velocities == {100}
ChordTypes == {"Maj"}
Extensions == {"m7"}
Modes == {"chord", "off", "quantize"}
PerformanceModes == {"off", "strum", "strum2oct", "slop", "arp", "arp2oct", "harp"}
Playstyles == {"simple", "advanced", "free"}
ZonePerformanceModes == {"off", "strum", "arp"}
ZoneChordTypes == {"", "Maj", "auto"}
SplitPoints == {60, 62, 63}
KeyRoots == {0, 1}
Scales == {"major"}
Bpms == {60, 120}
Outputs == {"out"}
ZoneNames == {"lower", "upper"}
RandomStreams == { <<0>>, <<3, 0>> }

\* the settings a run starts with: the defaults, or the defaults with the
\* global mode, or the split and the upper zone's mode, or suppress-root,
\* set beforehand
InitialStates ==
  { [ getDefaultState EXCEPT !.globalMode = mode ] : mode \in Modes }
  \cup { [ getDefaultState EXCEPT !.split.enabled = TRUE, !.split.upper.mode = mode ] :
           mode \in {"off", "quantize"} }
  \cup { [ getDefaultState EXCEPT !.suppressRoot = TRUE ] }

\* the settings changes of one run
MaxEdits == 1

\* ------------------------------------------------------------------- state

VARIABLES
  state,    \* OrchardEngine.state
  midi,     \* the OrchardMIDI instance, and what the last step sent
  held,     \* the input keys that are down
  last,     \* the operation of the last step
  quiet,    \* the active chord note was released, no note-on came since
  edits,    \* settings changes so far
  pressedAs, \* for each held pass-through or quantize key, the mode it was
             \* pressed in and the notes of the note-ons its press sent
  struck,   \* for each held key, the velocity of its note-on
  down,     \* the chord-type shortcut keys (1-4) that are down, in the order
            \* they were pressed
  twice     \* for each held key that got a second note-on before its
            \* note-off, whether the first of its two note-offs is still to come

vars == <<state, midi, held, last, quiet, edits, pressedAs, struck, down, twice>>

Op(name) ==
  [ op |-> name, note |-> NoNote, velocity |-> 0, mode |-> "", active |-> FALSE,
    kind |-> "", type |-> "", channel |-> 0, durationMs |-> 0, did |-> FALSE,
    out |-> <<>> ]

Init ==
  /\ state \in InitialStates
  /\ midi = NewMIDI
  /\ held = {}
  /\ last = Op("init")
  /\ quiet = FALSE
  /\ edits = 0
  /\ pressedAs = <<>>
  /\ struck = <<>>
  /\ down = <<>>
  /\ twice = <<>>

\* the notes of the note-ons among the messages sent
OnNotes(sent) ==
  LET ons == SelectSeq(sent, LAMBDA m : m.type = "on")
  IN  [ i \in 1..Len(ons) |-> ons[i].note ]

UsesRandom(S) ==
  \/ S.arpPattern = "random"
  \/ "slop" \in { S.performanceMode, S.split.lower.performanceMode,
                  S.split.upper.performanceMode }

Randoms(S) == IF UsesRandom(S) THEN RandomStreams ELSE { <<0>> }

\* ------------------------------------------------------------ engine steps

\* a handler returned r: the engine's state and its OrchardMIDI after it
Becomes(r) == state' = r.state /\ midi' = r.midi

\* the output select's change handler: engine.selectMIDIOutput(midiOutputs[index])
SelectMIDIOutput(output) ==
  /\ midi.output # output
  /\ midi' = selectOutput(Begin(midi), output)
  /\ last' = Op("selectOutput")
  /\ UNCHANGED <<state, held, quiet, edits, pressedAs, struck, down, twice>>

\* a key goes down: midi.onNoteOn -> onMIDINoteOn
MIDINoteOn(midiNote, velocity) ==
  /\ midiNote \notin held
  /\ \E rnd \in Randoms(state) :
       Becomes(onMIDINoteOn(state, Begin(midi), midiNote, velocity, rnd))
  /\ held' = held \cup {midiNote}
  /\ last' = [ Op("noteOn") EXCEPT !.note = midiNote, !.velocity = velocity,
                                   !.mode = getModeForNote(state, midiNote) ]
  /\ quiet' = FALSE
  /\ pressedAs' = IF getModeForNote(state, midiNote) \in {"off", "quantize"}
                  THEN MapSet(pressedAs, midiNote,
                              [ mode |-> getModeForNote(state, midiNote),
                                notes |-> OnNotes(midi'.sent) ])
                  ELSE pressedAs
  /\ struck' = MapSet(struck, midiNote, velocity)
  /\ UNCHANGED <<edits, down, twice>>

\* a key goes up: midi.onNoteOff -> onMIDINoteOff
MIDINoteOff(midiNote) ==
  /\ midiNote \in held
  /\ midiNote \in DOMAIN twice => ~twice[midiNote]
  /\ Becomes(onMIDINoteOff(state, Begin(midi), midiNote))
  /\ held' = held \ {midiNote}
  /\ last' = [ Op("noteOff") EXCEPT
                 !.note = midiNote,
                 !.mode = IF midiNote \in DOMAIN pressedAs
                          THEN pressedAs[midiNote].mode ELSE "chord",
                 !.active = midiNote \notin state.passThroughNotes
                            /\ state.activeMidiNote = midiNote,
                 !.out = IF midiNote \in DOMAIN pressedAs
                         THEN pressedAs[midiNote].notes ELSE <<>> ]
  /\ quiet' = IF midiNote \notin state.passThroughNotes
                 /\ state.activeMidiNote = midiNote
              THEN TRUE ELSE quiet
  /\ pressedAs' = MapDelete(pressedAs, midiNote)
  /\ struck' = MapDelete(struck, midiNote)
  /\ twice' = MapDelete(twice, midiNote)
  /\ UNCHANGED <<edits, down>>

\* a chord-type button goes down or up
ChordTypeButton(chordType, isPressed) ==
  /\ \E rnd \in Randoms(state) :
       Becomes(onChordType(state, Begin(midi), chordType, isPressed, rnd))
  /\ last' = [ Op("chordType") EXCEPT !.type = chordType, !.did = isPressed ]
  /\ UNCHANGED <<held, quiet, edits, pressedAs, struck, down, twice>>

\* an extension button goes down or up
ExtensionButton(extension, isPressed) ==
  /\ \E rnd \in Randoms(state) :
       Becomes(onExtension(state, Begin(midi), extension, isPressed, rnd))
  /\ last' = [ Op("extension") EXCEPT !.type = extension, !.did = isPressed ]
  /\ UNCHANGED <<held, quiet, edits, pressedAs, struck, down, twice>>

\* the timer that is due next fires
TimerFires ==
  /\ midi.pendingTimeouts # <<>>
  /\ LET M0 == Begin(midi)
         i == NextDue(M0.pendingTimeouts)
         t == M0.pendingTimeouts[i]
         M1 == [ M0 EXCEPT !.pendingTimeouts = AfterDue(@, i) ]
     IN  /\ \E rnd \in Randoms(state) :
               midi' = CASE t.kind = "event" -> EventCallback(M1, t)
                         [] t.kind = "off" -> OffCallback(M1, t)
                         [] OTHER -> LoopCallback(state, M1, t, rnd)
         /\ last' = [ Op("fire") EXCEPT !.kind = t.kind, !.type = t.type,
                        !.channel = t.channel, !.note = t.note,
                        !.velocity = t.velocity, !.durationMs = t.durationMs ]
  /\ UNCHANGED <<state, held, quiet, edits, pressedAs, struck, down, twice>>

\* a settings change: the state after it
Edit(S) ==
  /\ edits < MaxEdits
  /\ S # state
  /\ state' = S
  /\ edits' = edits + 1
  /\ midi' = Begin(midi)
  /\ last' = Op("edit")
  /\ UNCHANGED <<held, quiet, pressedAs, struck, down, twice>>

\* the playstyle radios: setPlaystyle, and the active chord type reset
setPlaystyle ==
  \E mode \in Playstyles :
    Edit([ state EXCEPT !.playstyle = mode, !.activeChordType = NULL ])

setZonePlaystyle ==
  \E z \in ZoneNames, mode \in Playstyles :
    Edit([ state EXCEPT !.split[z].playstyle = mode ])

setPerformanceMode ==
  \E mode \in PerformanceModes : Edit([ state EXCEPT !.performanceMode = mode ])

setBpm ==
  \E bpm \in Bpms : Edit([ state EXCEPT !.bpm = Max2(40, Min2(240, bpm)) ])

setSuppressRoot ==
  \E enabled \in BOOLEAN : Edit([ state EXCEPT !.suppressRoot = enabled ])

\* updateKeySettings: setKeyMode and setQuantize with the same root and scale
updateKeySettings ==
  \E root \in KeyRoots, scale \in Scales, km \in BOOLEAN, q \in BOOLEAN :
    Edit([ state EXCEPT !.keyMode = KeySettings(km, root, scale),
                        !.quantize = KeySettings(q, root, scale) ])

updateZoneKeySettings ==
  \E z \in ZoneNames, root \in KeyRoots, scale \in Scales,
     km \in BOOLEAN, q \in BOOLEAN :
    Edit([ state EXCEPT !.split[z].keyMode = KeySettings(km, root, scale),
                        !.split[z].quantize = KeySettings(q, root, scale) ])

setSplitEnabled ==
  \E enabled \in BOOLEAN : Edit([ state EXCEPT !.split.enabled = enabled ])

setSplitPoint ==
  \E point \in SplitPoints : Edit([ state EXCEPT !.split.point = point ])

setGlobalMode ==
  \E mode \in Modes : Edit([ state EXCEPT !.globalMode = mode ])

setZoneMode ==
  \E z \in ZoneNames, mode \in Modes : Edit([ state EXCEPT !.split[z].mode = mode ])

setZoneChordType ==
  \E z \in ZoneNames, chordType \in ZoneChordTypes :
    Edit([ state EXCEPT !.split[z].chordType = chordType ])

setZonePerformanceMode ==
  \E z \in ZoneNames, mode \in ZonePerformanceModes :
    Edit([ state EXCEPT !.split[z].performanceMode = mode ])

Settings ==
  \/ setPlaystyle
  \/ setZonePlaystyle
  \/ setPerformanceMode
  \/ setBpm
  \/ setSuppressRoot
  \/ updateKeySettings
  \/ updateZoneKeySettings
  \/ setSplitEnabled
  \/ setSplitPoint
  \/ setGlobalMode
  \/ setZoneMode
  \/ setZoneChordType
  \/ setZonePerformanceMode

Next ==
  \/ \E output \in Outputs : SelectMIDIOutput(output)
  \/ \E midiNote \in Keys, velocity \in Velocities : MIDINoteOn(midiNote, velocity)
  \/ \E midiNote \in Keys : MIDINoteOff(midiNote)
  \/ \E chordType \in ChordTypes, isPressed \in BOOLEAN :
       ChordTypeButton(chordType, isPressed)
  \/ \E extension \in Extensions, isPressed \in BOOLEAN :
       ExtensionButton(extension, isPressed)
  \/ TimerFires
  \/ Settings

Spec == Init /\ [][Next]_vars

\* ------------------------------------------------- OrchardMIDI on its own
\* The class driven through its public methods, in any order.

MidiChannels == {CHORD, PERFORMANCE}
MidiNotes == {60, 64}
MidiOutputs == {NULL, "out"}
BatchTypes == {"noteOn", "noteOff"}
BatchNotes == {60}
BatchChannels == {PERFORMANCE}
BatchDelays == {10}
BatchDurations == {0, 5}

\* the events of one scheduleBatch call, and the timers pending at a time
MaxBatch == 1
MaxPending == 2

BatchEvents ==
  [ type : BatchTypes, channel : BatchChannels, note : BatchNotes,
    velocity : Velocities, timestamp : BatchDelays, durationMs : BatchDurations ]

Batches ==
  UNION { [ 1..n -> BatchEvents ] : n \in 1..MaxBatch }

InitMidi ==
  /\ state = getDefaultState
  /\ midi = NewMIDI
  /\ held = {}
  /\ last = Op("init")
  /\ quiet = FALSE
  /\ edits = 0
  /\ pressedAs = <<>>
  /\ struck = <<>>
  /\ down = <<>>
  /\ twice = <<>>

MidiSelectOutput(output) ==
  /\ midi.output # output
  /\ midi' = selectOutput(Begin(midi), output)
  /\ last' = Op("selectOutput")
  /\ UNCHANGED <<state, held, quiet, edits, pressedAs, struck, down, twice>>

MidiNoteOn(channel, note, velocity) ==
  /\ midi' = noteOn(Begin(midi), channel, note, velocity)
  /\ last' = [ Op("noteOn") EXCEPT !.channel = channel, !.note = note,
                                   !.velocity = velocity ]
  /\ UNCHANGED <<state, held, quiet, edits, pressedAs, struck, down, twice>>

MidiNoteOff(channel, note) ==
  /\ midi' = noteOff(Begin(midi), channel, note)
  /\ last' = [ Op("noteOff") EXCEPT !.channel = channel, !.note = note ]
  /\ UNCHANGED <<state, held, quiet, edits, pressedAs, struck, down, twice>>

MidiAllNotesOff(channel) ==
  /\ midi' = allNotesOff(Begin(midi), channel)
  /\ last' = [ Op("allNotesOff") EXCEPT !.channel = channel ]
  /\ UNCHANGED <<state, held, quiet, edits, pressedAs, struck, down, twice>>

MidiCancelPending ==
  /\ midi.pendingTimeouts # <<>>
  /\ midi' = cancelPending(Begin(midi))
  /\ last' = Op("cancelPending")
  /\ UNCHANGED <<state, held, quiet, edits, pressedAs, struck, down, twice>>

MidiScheduleBatch(events, cancelPrevious) ==
  /\ (IF cancelPrevious THEN 0 ELSE Len(midi.pendingTimeouts)) + 2 * Len(events)
       <= MaxPending + 1
  /\ midi' = scheduleBatch(Begin(midi), events, cancelPrevious)
  /\ last' = [ Op("scheduleBatch") EXCEPT !.did = cancelPrevious ]
  /\ UNCHANGED <<state, held, quiet, edits, pressedAs, struck, down, twice>>

MidiTimerFires ==
  /\ midi.pendingTimeouts # <<>>
  /\ LET M0 == Begin(midi)
         i == NextDue(M0.pendingTimeouts)
         t == M0.pendingTimeouts[i]
         M1 == [ M0 EXCEPT !.pendingTimeouts = AfterDue(@, i) ]
     IN  /\ midi' = IF t.kind = "event" THEN EventCallback(M1, t)
                    ELSE OffCallback(M1, t)
         /\ last' = [ Op("fire") EXCEPT !.kind = t.kind, !.type = t.type,
                        !.channel = t.channel, !.note = t.note,
                        !.velocity = t.velocity, !.durationMs = t.durationMs ]
  /\ UNCHANGED <<state, held, quiet, edits, pressedAs, struck, down, twice>>

NextMidi ==
  \/ \E output \in MidiOutputs : MidiSelectOutput(output)
  \/ \E channel \in MidiChannels, note \in MidiNotes, velocity \in Velocities :
       MidiNoteOn(channel, note, velocity)
  \/ \E channel \in MidiChannels, note \in MidiNotes : MidiNoteOff(channel, note)
  \/ \E channel \in MidiChannels : MidiAllNotesOff(channel)
  \/ MidiCancelPending
  \/ \E events \in Batches, cancelPrevious \in BOOLEAN :
       MidiScheduleBatch(events, cancelPrevious)
  \/ MidiTimerFires

SpecMidi == InitMidi /\ [][NextMidi]_vars

\* ------------------------------------------------------------------ claims

RegistriesEmpty == \A ch \in Channels : midi.activeNotes[ch] = <<>>

\* C1: no stuck notes. Whatever keys were pressed and released, buttons
\* pushed, settings changed and timers fired, once every pressed key has been
\* released the chord, performance and bass registries are empty and no
\* scheduled callback is pending.
NoStuckNotes ==
  held = {} => RegistriesEmpty /\ midi.pendingTimeouts = <<>>

\* the last key went up while an output was selected, and its release cleared
\* timers and sent note-offs
NoStuckNotesWitness ==
  /\ held = {}
  /\ last.op = "noteOff"
  /\ midi.output # NULL
  /\ midi.dropped # {}
  /\ \E i \in DOMAIN midi.sent : midi.sent[i].type = "off"

\* C2: when onMIDINoteOff is called for the active chord-generation note (not
\* tracked as pass-through), on return the three registries and the pending
\* list are empty and activeKey and activeMidiNote are null; and from then
\* until the next input note-on no step sends a note-on.
ReleaseOfActiveNoteStopsAll ==
  /\ (last.op = "noteOff" /\ last.active) =>
       /\ RegistriesEmpty
       /\ midi.pendingTimeouts = <<>>
       /\ state.activeKey = NoNote
       /\ state.activeMidiNote = NoNote
  /\ quiet => \A i \in DOMAIN midi.sent : midi.sent[i].type # "on"

\* the active note was released while an arp loop ran: its kickoff timer and
\* a note-off timer of the cycle were pending
ReleaseOfActiveNoteWitness ==
  /\ last.op = "noteOff"
  /\ last.active
  /\ midi.output # NULL
  /\ {"loop", "off"} \subseteq midi.dropped

SentOn == \E i \in DOMAIN midi.sent : midi.sent[i].type = "on"

\* C3: after allNotesOff(channel), no scheduled callback for that channel
\* fires a note-on unless a scheduleBatch was issued in between, whatever was
\* pending when allNotesOff was called.
NoNoteOnAfterAllNotesOff ==
  (last.op = "fire" /\ last.channel \in midi.silenced) => ~SentOn

\* C4: allNotesOff(channel) sends a note-off for every note in the channel's
\* registry and leaves that registry empty, in every state (also with the
\* output deselected), and leaves the other channels' registries as they were.
AllNotesOffEmptiesRegistry ==
  [][ last'.op = "allNotesOff" =>
        LET ch == last'.channel
            before == midi.activeNotes[ch]
        IN  /\ midi'.sent = [ i \in 1..Len(before) |-> Msg("off", ch, before[i], 0) ]
            /\ midi'.activeNotes[ch] = <<>>
            /\ \A c \in Channels \ {ch} : midi'.activeNotes[c] = midi.activeNotes[c]
    ]_vars

\* C5: once cancelPending has run (by itself or in a scheduleBatch with
\* cancelPrevious), no callback scheduled before it and not yet fired is
\* pending any more, so none fires: the timers pending after the step are all
\* of the step's own making.
CancelledNeverFire ==
  midi.cancelled => \A i \in DOMAIN midi.pendingTimeouts : midi.pendingTimeouts[i].fresh

\* a step cancelled note-on timers, a note-off timer and the arp loop's
\* kickoff, and scheduled anew
CancelledNeverFireWitness ==
  /\ midi.cancelled
  /\ midi.dropped = {"event", "off", "loop"}
  /\ midi.pendingTimeouts # <<>>

IsOffTimer(t, channel, note) ==
  t.kind = "off" /\ t.channel = channel /\ t.note = note

\* an event with a duration fired its note-on: its note-off is registered
\* durationMs ahead
NoteOffRegistered ==
  (last.op = "fire" /\ last.kind = "event" /\ last.type = "noteOn"
     /\ last.durationMs # 0) =>
    \E i \in DOMAIN midi.pendingTimeouts :
      /\ IsOffTimer(midi.pendingTimeouts[i], last.channel, last.note)
      /\ midi.pendingTimeouts[i].due = last.durationMs
      /\ midi.pendingTimeouts[i].fresh

\* the step to M, L its operation, fired note-off timer t, and with an
\* output selected its note is out of the registry
NoteOffFired(L, M, t) ==
  /\ L.op = "fire" /\ L.kind = "off"
  /\ L.channel = t.channel /\ L.note = t.note
  /\ M.output # NULL => ~Has(M.activeNotes[t.channel], t.note)

\* note-off timer t is pending in M still
StillPending(M, t) ==
  \E j \in DOMAIN M.pendingTimeouts :
    /\ IsOffTimer(M.pendingTimeouts[j], t.channel, t.note)
    /\ M.pendingTimeouts[j].due <= t.due

\* C6 as stated: for every event with a duration whose note-on fires, the
\* note-off for the same channel and note is registered durationMs ahead and
\* stays pending until it fires and removes the note, whatever scheduleBatch
\* calls (cancelling or not) come later.
DurationNoteOffAlways ==
  [][ /\ NoteOffRegistered'
      /\ \A i \in DOMAIN midi.pendingTimeouts :
           midi.pendingTimeouts[i].kind = "off" =>
             \/ NoteOffFired(last', midi', midi.pendingTimeouts[i])
             \/ StillPending(midi', midi.pendingTimeouts[i])
    ]_vars

\* C6 amended: the note-off is registered durationMs ahead and stays pending
\* until it fires and removes the note, unless cancelPending or a scheduleBatch
\* with cancelPrevious runs first; a scheduleBatch that does not cancel never
\* removes it.
DurationNoteOffUnlessCancelled ==
  [][ /\ NoteOffRegistered'
      /\ \A i \in DOMAIN midi.pendingTimeouts :
           midi.pendingTimeouts[i].kind = "off" =>
             \/ NoteOffFired(last', midi', midi.pendingTimeouts[i])
             \/ StillPending(midi', midi.pendingTimeouts[i])
             \/ midi'.cancelled
    ]_vars

\* a registered note-off timer fired with an output selected
DurationNoteOffWitness ==
  /\ last.op = "fire" /\ last.kind = "off"
  /\ midi.output # NULL
  /\ midi.sent = << Msg("off", last.channel, last.note, 0) >>
  /\ ~Has(midi.activeNotes[last.channel], last.note)

\* C7: noteOn is never executed for a note that is already in its channel's
\* registry.
NoNoteOnTwice == ~midi.again

\* C8: with the split enabled, the lower zone generating chords and the upper
\* zone passing through, the release of a held upper-zone key leaves every
\* chord, bass and performance note of the held lower-zone key in its
\* registry, also when the upper key's pitch is one of the chord's notes.
UpperReleaseKeepsChord ==
  [][ ( /\ state.split.enabled
        /\ state.split.lower.mode = "chord" /\ state.split.upper.mode = "off"
        /\ last'.op = "noteOff"
        /\ last'.note >= state.split.point /\ last'.note \in state.passThroughNotes
        /\ state.activeMidiNote \in held /\ state.activeMidiNote < state.split.point )
      => \A ch \in Channels : \A i \in DOMAIN midi.activeNotes[ch] :
           (ch # CHORD \/ Has(state.currentChord, midi.activeNotes[ch][i]))
             => Has(midi'.activeNotes[ch], midi.activeNotes[ch][i])
    ]_vars

\* the step is the chord zone's: a chord key pressed or released, a chord-type
\* or an extension button
ChordStep ==
  \/ last.op \in {"chordType", "extension"}
  \/ last.op \in {"noteOn", "noteOff"} /\ last.mode = "chord"

\* C9: with the split enabled, a held pass-through or quantize key's note
\* stays in the chord registry through every step of the chord zone.
HeldPassThroughKeepsSounding ==
  [][ (state.split.enabled /\ ChordStep') =>
        \A n \in DOMAIN pressedAs : \A i \in DOMAIN pressedAs[n].notes :
          Has(midi.activeNotes[CHORD], pressedAs[n].notes[i])
            => Has(midi'.activeNotes[CHORD], pressedAs[n].notes[i])
    ]_vars

QuantizedAt(S, midiNote) ==
  quantizeNoteToKey(midiNote, getEffectiveSettings(S, midiNote).quantize.root,
                    getEffectiveSettings(S, midiNote).quantize.scale)

\* C10: a key pressed in quantize mode sends the note-on of
\* quantizeNoteToKey(key) under its zone's quantize root and scale; its
\* release sends the note-off of the note that note-on had, whatever the
\* settings are by then.
QuantizedNoteOnOffMatch ==
  /\ (last.op = "noteOn" /\ last.mode = "quantize" /\ midi.output # NULL) =>
       midi.sent = << Msg("on", CHORD, QuantizedAt(state, last.note), last.velocity) >>
  /\ (last.op = "noteOff" /\ last.mode = "quantize" /\ midi.output # NULL
        /\ last.out # <<>>) =>
       midi.sent = << Msg("off", CHORD, last.out[1], 0) >>

\* a quantize key was released after the settings changed: quantized now, it
\* would give another note than the one that was turned on and off
QuantizedNoteOnOffWitness ==
  /\ last.op = "noteOff" /\ last.mode = "quantize"
  /\ midi.output # NULL
  /\ last.out # <<>>
  /\ last.out[1] # QuantizedAt(state, last.note)

\* C11: a note-on whose effective mode is pass-through sends exactly one
\* note-on, on the chord channel, for the identical note and velocity, and
\* leaves activeKey, activeMidiNote, the pending-callback list and the
\* performance and bass registries as they were; the release of a key pressed
\* in pass-through sends the note-off for the identical note.
PassThroughForwardsUnchanged ==
  [][ /\ (last'.op = "noteOn" /\ last'.mode = "off") =>
           /\ midi.output # NULL =>
                midi'.sent = << Msg("on", CHORD, last'.note, last'.velocity) >>
           /\ state'.activeKey = state.activeKey
           /\ state'.activeMidiNote = state.activeMidiNote
           /\ midi'.pendingTimeouts = Begin(midi).pendingTimeouts
           /\ midi'.activeNotes[PERFORMANCE] = midi.activeNotes[PERFORMANCE]
           /\ midi'.activeNotes[BASS] = midi.activeNotes[BASS]
      /\ (last'.op = "noteOff" /\ last'.mode = "off" /\ midi.output # NULL) =>
           midi'.sent = << Msg("off", CHORD, last'.note, 0) >>
    ]_vars

\* a pass-through key was released while a chord key was held and timers of
\* its performance pattern were pending
PassThroughForwardsWitness ==
  /\ last.op = "noteOff" /\ last.mode = "off"
  /\ midi.output # NULL
  /\ state.activeMidiNote \in held
  /\ midi.pendingTimeouts # <<>>
  /\ midi.sent = << Msg("off", CHORD, last.note, 0) >>

\* the notes of the note-ons sent on a channel
OnNotesOf(sent, channel) ==
  { sent[i].note : i \in { j \in DOMAIN sent : sent[j].type = "on"
                                               /\ sent[j].channel = channel } }

\* C12: chord key B pressed while chord key A is held and active: when B's
\* note-on returns, no callback scheduled before it is pending, every note in
\* the three registries was turned on by B's note-on, and B is the active
\* note; the later release of a chord key that is not the active one changes
\* no registry, no pending callback and not the active note; and the release
\* of the active key empties the registries and the pending list.
ReplacedChordNote ==
  [][ /\ ( last'.op = "noteOn" /\ last'.mode = "chord"
            /\ state.activeMidiNote \in held ) =>
           /\ \A i \in DOMAIN midi'.pendingTimeouts : midi'.pendingTimeouts[i].fresh
           /\ \A ch \in Channels :
                Range(midi'.activeNotes[ch]) \subseteq OnNotesOf(midi'.sent, ch)
           /\ state'.activeMidiNote = last'.note
           /\ state'.activeKey = last'.note % 12
      /\ ( last'.op = "noteOff" /\ last'.mode = "chord" /\ ~last'.active ) =>
           /\ midi'.activeNotes = midi.activeNotes
           /\ midi'.pendingTimeouts = Begin(midi).pendingTimeouts
           /\ midi'.sent = <<>>
           /\ state'.activeMidiNote = state.activeMidiNote
           /\ state'.activeKey = state.activeKey
      /\ ( last'.op = "noteOff" /\ last'.mode = "chord" /\ last'.active ) =>
           /\ \A ch \in Channels : midi'.activeNotes[ch] = <<>>
           /\ midi'.pendingTimeouts = <<>>
    ]_vars

\* the replaced chord key went up while the key that replaced it was held,
\* its notes sounding and its timers pending
ReplacedChordNoteWitness ==
  /\ last.op = "noteOff" /\ last.mode = "chord" /\ ~last.active
  /\ state.activeMidiNote \in held
  /\ midi.activeNotes[CHORD] # <<>>
  /\ midi.activeNotes[PERFORMANCE] # <<>>
  /\ midi.pendingTimeouts # <<>>

\* the zone a note belongs to with the split enabled
ZoneOf(S, midiNote) == IF midiNote < S.split.point THEN "lower" ELSE "upper"

\* what one source of settings resolves to: the global settings (no chord-type
\* override), or one zone's
SettingsOf(z) ==
  [ mode |-> z.mode,
    chordType |-> IF z.chordType = "" THEN NULL ELSE z.chordType,
    settings |-> [ playstyle |-> z.playstyle, performanceMode |-> z.performanceMode,
                   keyMode |-> z.keyMode, quantize |-> z.quantize ] ]

GlobalSettings(S) ==
  [ mode |-> S.globalMode, chordType |-> NULL,
    settings |-> [ playstyle |-> S.playstyle, performanceMode |-> S.performanceMode,
                   keyMode |-> S.keyMode, quantize |-> S.quantize ] ]

ResolvedFor(S, midiNote) ==
  IF S.split.enabled THEN SettingsOf(S.split[ZoneOf(S, midiNote)])
  ELSE GlobalSettings(S)

\* a chord-mode note-on did what updateOutputWithOptions does with the chord-type
\* override and the settings r
NoteOnUnder(S, M, N, L, r) ==
  \E rnd \in Randoms(S) :
    N = OutputWithSettings([ S EXCEPT !.activeMidiNote = L.note,
                                      !.activeKey = L.note % 12,
                                      !.velocity = L.velocity ],
                           Begin(M), L.velocity, r.chordType, L.note, r.settings,
                           rnd).midi

\* C13: for every input note the mode, the chord-type override and the
\* playstyle, performance and scale settings are the global ones with the
\* split disabled, the lower zone's exactly when the note is below the split
\* point and the upper zone's otherwise; and a note-on acts in the mode and
\* generates under the override and settings of that one zone.
ZoneResolution ==
  /\ [](\A midiNote \in 0..127 :
         /\ getModeForNote(state, midiNote) = ResolvedFor(state, midiNote).mode
         /\ getZoneChordType(state, midiNote) = ResolvedFor(state, midiNote).chordType
         /\ getEffectiveSettings(state, midiNote) = ResolvedFor(state, midiNote).settings)
  /\ [][ last'.op = "noteOn" =>
            /\ last'.mode = ResolvedFor(state, last'.note).mode
            /\ last'.mode = "chord" =>
                 NoteOnUnder(state, midi, midi', last', ResolvedFor(state, last'.note))
      ]_vars

\* a key on the split point was pressed: it is the upper zone's, whose mode
\* and performance mode are not the lower zone's
ZoneResolutionWitness ==
  /\ last.op = "noteOn"
  /\ state.split.enabled
  /\ last.note = state.split.point
  /\ last.mode = state.split.upper.mode
  /\ state.split.upper.mode # state.split.lower.mode
  /\ midi.output # NULL

PitchClasses(notes) == { notes[i] % 12 : i \in DOMAIN notes }

\* the chord type in force for held chord key midiNote: the zone's override
\* (fixed, or scale-derived for "auto"), else the manual selection, else key
\* mode's when enabled, else none
ClaimedChordType(S, midiNote, r) ==
  LET keyNote == QuantizedRoot(midiNote, r.settings) % 12
      derived == getKeyModeChordType(keyNote, r.settings.keyMode.root,
                                     r.settings.keyMode.scale)
  IN  IF r.chordType = "auto" THEN derived
      ELSE IF r.chordType # NULL THEN r.chordType
      ELSE IF S.activeChordType # NULL THEN S.activeChordType
      ELSE IF r.settings.keyMode.enabled THEN derived
      ELSE NULL

\* the pitch classes of the chord of that type on the key's root
ClaimedPitchClasses(S, midiNote, r) ==
  PitchClasses(ChordOutput(S, QuantizedRoot(midiNote, r.settings),
                           ClaimedChordType(S, midiNote, r)))

\* the notes of the events scheduled in the step to M
ScheduledNotes(M) ==
  { M.pendingTimeouts[i].note :
      i \in { j \in DOMAIN M.pendingTimeouts :
                M.pendingTimeouts[j].kind = "event" /\ M.pendingTimeouts[j].fresh } }

\* the step to S, M emitted the chord of key S.activeMidiNote: sendOutput ran
\* and stored currentChord, or a cycle of events was scheduled; what it
\* emitted has, the root aside, the pitch classes pcs
EmitsPitchClasses(S, M, L, pcs) ==
  LET root == { QuantizedRoot(S.activeMidiNote,
                              ResolvedFor(S, S.activeMidiNote).settings) % 12 }
  IN  /\ (L.op \in {"noteOn", "chordType", "extension"} /\ M.cancelled) =>
           PitchClasses(S.currentChord) \cup root = pcs \cup root
      /\ ScheduledNotes(M) # {} =>
           { n % 12 : n \in ScheduledNotes(M) } \cup root = pcs \cup root

\* C14: every chord emitted while a chord key is held - at its note-on, at a
\* regeneration by a chord-type or extension change, at each arp cycle - has
\* the chord type of the zone's override if set (fixed, or scale-derived for
\* "auto"), else the manually selected type, else key mode's type if key mode
\* is enabled, else it is the root alone.
ChordTypePrecedence ==
  [][ (state'.activeMidiNote # NoNote /\ last'.op # "edit") =>
        EmitsPitchClasses(state', midi', last',
                          ClaimedPitchClasses(state', state'.activeMidiNote,
                                              ResolvedFor(state', state'.activeMidiNote)))
    ]_vars

\* the step from S, M to T, N emitted the chord again as a note-on of the held
\* key S.activeMidiNote emits it: on that key's own root, under the settings
\* of that key's zone, with the zone's override or without it
ReEmitsForHeldKey(S, M, T, N) ==
  \E rnd \in Randoms(S) :
    \E zoneChordType \in {NULL, getZoneChordType(S, S.activeMidiNote)} :
      OutputAt(T, Begin(M), S.velocity, zoneChordType, S.activeMidiNote, rnd)
        = [ state |-> T, midi |-> N ]

\* C15: a chord type or an extension pressed or released while a chord key is
\* held, the performance mode not an arp: the chord is emitted again with the
\* new type and extensions on the root of the held key, in its octave, under
\* the settings of the zone the held key is in.
ReEmittedOnHeldRoot ==
  [][ ( /\ last'.op \in {"chordType", "extension"}
        /\ state.activeMidiNote # NoNote
        /\ ResolvedFor(state, state.activeMidiNote).settings.performanceMode
             \notin {"arp", "arp2oct"} )
      => ReEmitsForHeldKey(state, midi, state', midi')
    ]_vars

\* C16: while suppress-root is enabled, no note-on for a held chord key goes
\* out on the chord channel with the root's pitch class, no event with the
\* root's pitch class is scheduled for the performance channel, and no bass
\* note-on goes out, in every performance mode (the arps included) and with
\* or without a chord type.
SuppressRootSilencesRoot ==
  ( /\ state.suppressRoot
    /\ state.activeMidiNote # NoNote
    /\ \/ last.op \in {"chordType", "extension", "fire"}
       \/ last.op = "noteOn" /\ last.mode = "chord" )
  => LET root == QuantizedRoot(state.activeMidiNote,
                               ResolvedFor(state, state.activeMidiNote).settings) % 12
     IN  /\ last.op # "fire" =>
              \A i \in DOMAIN midi.sent :
                midi.sent[i].type = "on" =>
                  midi.sent[i].channel # BASS /\ midi.sent[i].note % 12 # root
         /\ \A n \in ScheduledNotes(midi) : n % 12 # root

\* the events scheduled in the step to M: an arp cycle's sequence
CycleEvents(M) ==
  SelectSeq(M.pendingTimeouts, LAMBDA t : t.kind = "event" /\ t.fresh)

\* the total duration of an arp cycle of n steps under the settings S
CycleDurationMs(S, n) == (n * 60000) \div (S.bpm * NOTE_DIVISIONS[S.arpDivision])

\* C17: in the arp modes the kickoff of the next cycle is set one total
\* duration of the cycle just dispatched ahead, so that the next cycle starts
\* when this one ends, also when the cycle length has changed while the key is
\* held.
ArpKickoffAfterCycle ==
  \A i \in DOMAIN midi.pendingTimeouts :
    (midi.pendingTimeouts[i].kind = "loop" /\ midi.pendingTimeouts[i].fresh) =>
      midi.pendingTimeouts[i].due = CycleDurationMs(state, Len(CycleEvents(midi)))

\* an arp loop runs for the held chord key: its zone's performance mode is an
\* arp and the loop's kickoff is pending
ArpRunning(S, M) ==
  /\ S.activeMidiNote # NoNote
  /\ ResolvedFor(S, S.activeMidiNote).settings.performanceMode \in {"arp", "arp2oct"}
  /\ \E i \in DOMAIN M.pendingTimeouts : M.pendingTimeouts[i].kind = "loop"

\* the notes of the cycle dispatched in the step to M
CycleNotes(M) == [ i \in DOMAIN CycleEvents(M) |-> CycleEvents(M)[i].note ]

\* the cycle dispatched by the loop's kickoff t is the arpeggio of the chord
\* type and extensions in force at that moment
CycleIsCurrent(S, M, t) ==
  \E rnd \in Randoms(S) :
    CycleNotes(M)
      = ArpSequence(applyArpPattern(generateCurrentArpNotes(S).notes, S.arpPattern, rnd),
                    ResolvedFor(S, S.activeMidiNote).settings.performanceMode = "arp2oct")

\* C18: while an arp loop runs for a held key, a chord-type or extension
\* change cancels and alters none of the events and timers already scheduled,
\* sends nothing and does not restart the loop; the change shows in the
\* sequence the next kickoff generates.
ArpChangeWaitsForCycle ==
  [][ /\ (last'.op \in {"chordType", "extension"} /\ ArpRunning(state, midi)) =>
           /\ midi'.pendingTimeouts = Begin(midi).pendingTimeouts
           /\ midi'.activeNotes = midi.activeNotes
           /\ midi'.sent = <<>>
      /\ (last'.op = "fire" /\ last'.kind = "loop" /\ ArpRunning(state', midi')) =>
           CycleIsCurrent(state', midi', last')
    ]_vars

\* the engine's state with no chord key active
NoActiveNote(S) == [ S EXCEPT !.activeKey = NoNote, !.activeMidiNote = NoNote ]

\* the loop's kickoff i of M, were it to run with no chord key active, would
\* leave the registries alone, send nothing and schedule nothing
IdleKickoffSchedulesNothing(S, M, i) ==
  \A rnd \in RandomStreams :
    LoopCallback(NoActiveNote(S),
                 [ M EXCEPT !.pendingTimeouts = AfterDue(@, i) ],
                 M.pendingTimeouts[i], rnd)
      = [ M EXCEPT !.pendingTimeouts = AfterDue(@, i) ]

\* C19: with no chord key active, a chord-type or extension button sends no
\* message and leaves the registries and the pending callbacks as they were,
\* changing nothing but the stored chord type and extensions; updateOutput
\* does nothing at all; and a loop kickoff run with no chord key active
\* schedules no event and no further kickoff.
NoActiveNoteNoOp ==
  /\ [][ (last'.op \in {"chordType", "extension"} /\ state.activeKey = NoNote) =>
            /\ midi'.sent = <<>>
            /\ midi'.activeNotes = midi.activeNotes
            /\ midi'.pendingTimeouts = Begin(midi).pendingTimeouts
            /\ [ state' EXCEPT !.activeChordType = state.activeChordType,
                               !.activeExtensions = state.activeExtensions ] = state
      ]_vars
  /\ [](state.activeKey = NoNote =>
          \A rnd \in RandomStreams :
            updateOutput(state, midi, state.velocity, rnd)
              = [ state |-> state, midi |-> midi ])
  /\ [](\A i \in DOMAIN midi.pendingTimeouts :
          midi.pendingTimeouts[i].kind = "loop" =>
            IdleKickoffSchedulesNothing(state, midi, i))

\* a chord type was chosen with no chord key active, while a pass-through
\* note was sounding
NoActiveNoteWitness ==
  /\ last.op = "chordType" /\ last.did
  /\ state.activeKey = NoNote
  /\ state.activeChordType # NULL
  /\ midi.output # NULL
  /\ midi.activeNotes[CHORD] # <<>>

\* M with no output selected, and M with the other choice of output
Deselected(M) == selectOutput(M, NULL)
OtherOutput(M) == selectOutput(M, IF M.output = NULL THEN "out" ELSE NULL)

\* with no output selected noteOn, noteOff and allNotesOff leave M as it is
\* (allNotesOff only notes that it was called)
SilentWithoutOutput(M) ==
  \A ch \in Channels :
    /\ \A n \in Keys \cup Range(M.activeNotes[ch]) :
         /\ noteOn(Deselected(M), ch, n, 100) = Deselected(M)
         /\ noteOff(Deselected(M), ch, n) = Deselected(M)
    /\ allNotesOff(Deselected(M), ch) =
         [ Deselected(M) EXCEPT !.silenced = @ \cup {ch} ]

\* the handler of step L, run from S with the other choice of output, leaves
\* the engine in state T as well
SameLifecycle(S, M, L, T) ==
  \E rnd \in Randoms(S) :
    CASE L.op = "noteOn" ->
           onMIDINoteOn(S, OtherOutput(Begin(M)), L.note, L.velocity, rnd).state = T
      [] L.op = "noteOff" ->
           onMIDINoteOff(S, OtherOutput(Begin(M)), L.note).state = T
      [] L.op = "chordType" ->
           onChordType(S, OtherOutput(Begin(M)), L.type, L.did, rnd).state = T
      [] L.op = "extension" ->
           onExtension(S, OtherOutput(Begin(M)), L.type, L.did, rnd).state = T
      [] OTHER -> TRUE

\* C20: while no output is selected noteOn, noteOff and allNotesOff send
\* nothing and leave every registry as it is, whatever the registries hold;
\* no step of the engine sends anything; and activeKey, activeMidiNote,
\* passThroughNotes, quantizedNoteMap and currentChord - the whole engine
\* state - change in each step exactly as they do with an output selected.
NoOutputNoOp ==
  /\ [](SilentWithoutOutput(midi))
  /\ [][ /\ midi'.output = NULL =>
              midi'.sent = <<>> /\ midi'.activeNotes = midi.activeNotes
         /\ SameLifecycle(state, midi, last', state')
      ]_vars

\* with no output selected a chord key was pressed: the chord is stored, its
\* performance pattern is scheduled, nothing was sent
NoOutputWitness ==
  /\ midi.output = NULL
  /\ last.op = "noteOn" /\ last.mode = "chord"
  /\ Len(state.currentChord) > 1
  /\ midi.pendingTimeouts # <<>>
  /\ midi.sent = <<>>


\* --------------------------------------- the music-theory functions on their own
\* A call of one of the module-level functions: state holds the arguments,
\* last what the calls made so far returned.

\* the arguments drawn: every root and input note, the four chord types and
\* "Aug" (no key of CHORD_INTERVALS), every subset of the extension buttons,
\* every voicing position and bass octave of the dials, every key root, the
\* eight scales and "lydian" (no key of SCALE_DEGREES or of the key mode
\* mappings), the five patterns and "sideways" (no case of applyArpPattern)
Drawn ==
  [ rootNotes |-> 0..127,
    chordTypes |-> {"Maj", "Min", "Sus", "Dim", "Aug"},
    extensions |-> { SelectSeq(<<"6", "m7", "M7", "9">>, LAMBDA e : e \in s) :
                       s \in SUBSET {"6", "m7", "M7", "9"} },
    positions |-> -4..4,
    bassOctaves |-> -2..2,
    keyRoots |-> 0..11,
    scaleTypes |-> DOMAIN SCALE_DEGREES \cup {"lydian"},
    patterns |-> {"up", "down", "upDown", "downUp", "random", "sideways"},
    patternNotes |-> { <<60, 64, 67>>, <<67, 60, 64>>, <<64>>, <<64, 60>>,
                      <<71, 60, 67, 64>>, <<112, 116, 119>> },
    bpms |-> {40, 90, 120, 133, 240},
    dialPositions |-> 0..127,
    slops |-> {0, 64, 127},
    namedNotes |-> {60, 61},
    namedKeyRoots |-> {0, 7} ]

Arguments ==
  [ of |-> "", rootNote |-> 0, chordType |-> "", extensions |-> <<>>,
    bassOctave |-> 0, midiNote |-> 0, keyRoot |-> 0, scaleType |-> "",
    notes |-> <<>>, pattern |-> "", bpm |-> 0, division |-> "",
    twoOctaves |-> FALSE, dialPosition |-> 0, slop |-> 0 ]

\* the calls made: generateChord (then applyVoicing on what it returned),
\* applyBassVoicing, quantizeNoteToKey and getKeyModeChordType on a note of a
\* key, applyArpPattern and getKeyModeChordType by name, generateArpeggio and
\* generateStrum on the notes of a chord
ArgumentLists ==
  { [ Arguments EXCEPT !.of = "chord", !.rootNote = r, !.chordType = c,
                       !.extensions = e ] :
      r \in Drawn.rootNotes, c \in Drawn.chordTypes, e \in Drawn.extensions }
  \cup
  { [ Arguments EXCEPT !.of = "bass", !.rootNote = r, !.bassOctave = b ] :
      r \in Drawn.rootNotes, b \in Drawn.bassOctaves }
  \cup
  { [ Arguments EXCEPT !.of = "key", !.midiNote = n, !.keyRoot = k,
                       !.scaleType = s ] :
      n \in Drawn.rootNotes, k \in Drawn.keyRoots, s \in Drawn.scaleTypes }
  \cup
  { [ Arguments EXCEPT !.of = "names", !.notes = ns, !.pattern = p,
                       !.midiNote = n, !.keyRoot = k, !.scaleType = s ] :
      ns \in Drawn.patternNotes, p \in Drawn.patterns, n \in Drawn.namedNotes,
      k \in Drawn.namedKeyRoots, s \in Drawn.scaleTypes }
  \cup
  { [ Arguments EXCEPT !.of = "arpeggio", !.notes = ns, !.pattern = p,
                       !.bpm = b, !.division = d, !.twoOctaves = t ] :
      ns \in Drawn.patternNotes, p \in Drawn.patterns \ {"sideways"},
      b \in Drawn.bpms, d \in DOMAIN NOTE_DIVISIONS, t \in BOOLEAN }
  \cup
  { [ Arguments EXCEPT !.of = "strum", !.notes = ns, !.dialPosition = d,
                       !.twoOctaves = t, !.slop = sl ] :
      ns \in Drawn.patternNotes, d \in Drawn.dialPositions, t \in BOOLEAN,
      sl \in Drawn.slops }

Returned ==
  [ done |-> {}, threw |-> {}, generateChord |-> <<>>, position |-> 0,
    applyVoicing |-> <<>>, applyBassVoicing |-> 0, quantizeNoteToKey |-> 0,
    getKeyModeChordType |-> "", applyArpPattern |-> <<>>,
    getChordDisplayName |-> "",
    generateArpeggio |-> [ sequence |-> <<>>, totalDurationMs |-> 0 ],
    generateStrum |-> <<>> ]

InitTheory ==
  /\ state \in ArgumentLists
  /\ midi = NewMIDI
  /\ held = {}
  /\ last = Returned
  /\ quiet = FALSE
  /\ edits = 0
  /\ pressedAs = <<>>
  /\ struck = <<>>
  /\ down = <<>>
  /\ twice = <<>>

GenerateChord ==
  /\ state.of = "chord"
  /\ "generateChord" \notin last.done
  /\ last' = IF generateChordThrows(state.chordType)
             THEN [ last EXCEPT !.done = @ \cup {"generateChord"},
                                !.threw = @ \cup {"generateChord"} ]
             ELSE [ last EXCEPT !.done = @ \cup {"generateChord"},
                                !.generateChord =
                                  generateChord(state.rootNote, state.chordType,
                                                state.extensions) ]
  /\ UNCHANGED <<state, midi, held, quiet, edits, pressedAs, struck, down, twice>>

\* the chord that generateChord returned, voiced
ApplyVoicing(position) ==
  /\ state.of = "chord"
  /\ "generateChord" \in last.done \ last.threw
  /\ "applyVoicing" \notin last.done
  /\ last' = [ last EXCEPT !.done = @ \cup {"applyVoicing"},
                           !.position = position,
                           !.applyVoicing = applyVoicing(last.generateChord, position) ]
  /\ UNCHANGED <<state, midi, held, quiet, edits, pressedAs, struck, down, twice>>

ApplyBassVoicing ==
  /\ state.of = "bass"
  /\ "applyBassVoicing" \notin last.done
  /\ last' = [ last EXCEPT !.done = @ \cup {"applyBassVoicing"},
                           !.applyBassVoicing =
                             applyBassVoicing(state.rootNote, state.bassOctave) ]
  /\ UNCHANGED <<state, midi, held, quiet, edits, pressedAs, struck, down, twice>>

QuantizeNoteToKey ==
  /\ state.of = "key"
  /\ "quantizeNoteToKey" \notin last.done
  /\ last' = [ last EXCEPT !.done = @ \cup {"quantizeNoteToKey"},
                           !.quantizeNoteToKey =
                             quantizeNoteToKey(state.midiNote, state.keyRoot,
                                               state.scaleType) ]
  /\ UNCHANGED <<state, midi, held, quiet, edits, pressedAs, struck, down, twice>>

GetKeyModeChordType ==
  /\ state.of \in {"key", "names"}
  /\ "getKeyModeChordType" \notin last.done
  /\ last' = [ last EXCEPT !.done = @ \cup {"getKeyModeChordType"},
                           !.getKeyModeChordType =
                             getKeyModeChordType(state.midiNote, state.keyRoot,
                                                 state.scaleType) ]
  /\ UNCHANGED <<state, midi, held, quiet, edits, pressedAs, struck, down, twice>>

ApplyArpPattern ==
  /\ state.of = "names"
  /\ "applyArpPattern" \notin last.done
  /\ \E rnd \in RandomStreams :
       last' = [ last EXCEPT !.done = @ \cup {"applyArpPattern"},
                             !.applyArpPattern =
                               applyArpPattern(state.notes, state.pattern, rnd) ]
  /\ UNCHANGED <<state, midi, held, quiet, edits, pressedAs, struck, down, twice>>

GetChordDisplayName ==
  /\ state.of = "chord"
  /\ "getChordDisplayName" \notin last.done
  /\ last' = [ last EXCEPT !.done = @ \cup {"getChordDisplayName"},
                           !.getChordDisplayName =
                             getChordDisplayName(state.rootNote, state.chordType,
                                                 state.extensions) ]
  /\ UNCHANGED <<state, midi, held, quiet, edits, pressedAs, struck, down, twice>>

GenerateArpeggio ==
  /\ state.of = "arpeggio"
  /\ "generateArpeggio" \notin last.done
  /\ \E rnd \in RandomStreams :
       last' = [ last EXCEPT !.done = @ \cup {"generateArpeggio"},
                             !.generateArpeggio =
                               generateArpeggio(state.notes, state.bpm, state.pattern,
                                                state.division, 100,
                                                state.twoOctaves, rnd) ]
  /\ UNCHANGED <<state, midi, held, quiet, edits, pressedAs, struck, down, twice>>

GenerateStrum ==
  /\ state.of = "strum"
  /\ "generateStrum" \notin last.done
  /\ \E rnd \in RandomStreams :
       last' = [ last EXCEPT !.done = @ \cup {"generateStrum"},
                             !.generateStrum =
                               generateStrum(state.notes, state.dialPosition, 100,
                                             state.twoOctaves, state.slop, rnd) ]
  /\ UNCHANGED <<state, midi, held, quiet, edits, pressedAs, struck, down, twice>>

NextTheory ==
  \/ GenerateChord
  \/ \E position \in Drawn.positions : ApplyVoicing(position)
  \/ ApplyBassVoicing
  \/ QuantizeNoteToKey
  \/ GetKeyModeChordType
  \/ ApplyArpPattern
  \/ GetChordDisplayName
  \/ GenerateArpeggio
  \/ GenerateStrum

SpecTheory == InitTheory /\ [][NextTheory]_vars

\* C21: generateChord called with a chord type that is not one of Maj, Min,
\* Sus, Dim does not fail and returns the Major chord on the given root with
\* the selected extensions.
UnknownChordTypeIsMajor ==
  ( /\ "generateChord" \in last.done
    /\ state.chordType \notin {"Maj", "Min", "Sus", "Dim"} )
  => /\ "generateChord" \notin last.threw
     /\ last.generateChord = generateChord(state.rootNote, "Maj", state.extensions)

\* C22: applyArpPattern called with a pattern name other than up, down,
\* upDown, downUp, random returns the notes in ascending order, and
\* getKeyModeChordType called with an unrecognized scale name returns Major;
\* neither fails.
UnknownNamesFallBack ==
  /\ ( /\ "applyArpPattern" \in last.done
       /\ state.pattern \notin {"up", "down", "upDown", "downUp", "random"} )
     => /\ "applyArpPattern" \notin last.threw
        /\ last.applyArpPattern = SortAsc(state.notes)
  /\ ( /\ "getKeyModeChordType" \in last.done
       /\ state.scaleType \notin DOMAIN SCALE_DEGREES )
     => /\ "getKeyModeChordType" \notin last.threw
        /\ last.getKeyModeChordType = "Maj"

\* both calls made with unknown names, the notes given out of order
UnknownNamesWitness ==
  /\ {"applyArpPattern", "getKeyModeChordType"} \subseteq last.done
  /\ state.pattern = "sideways"
  /\ state.scaleType = "lydian"
  /\ state.notes = <<67, 60, 64>>
  /\ last.applyArpPattern = <<60, 64, 67>>
  /\ last.getKeyModeChordType = "Maj"

\* the intervals declared for a chord: the chord type's and those of the
\* extensions selected
DeclaredIntervals(chordType, extensions) ==
  CHORD_INTERVALS[chordType]
  \cup { EXTENSION_INTERVALS[e] : e \in Range(extensions) }

\* C23: for every root in 0..127, every chord type and every subset of
\* extensions, generateChord returns a strictly ascending, duplicate-free
\* sequence of notes in 0..127 whose pitch classes are pairwise distinct, each
\* note being the root plus exactly one declared interval.
ChordAscendingDistinct ==
  "generateChord" \in last.done \ last.threw
  => LET chord == last.generateChord
     IN  /\ \A i \in 1..(Len(chord) - 1) : chord[i] < chord[i + 1]
         /\ \A i \in DOMAIN chord : chord[i] \in 0..127
         /\ \A i, j \in DOMAIN chord : i # j => chord[i] % 12 # chord[j] % 12
         /\ \A i \in DOMAIN chord :
              Cardinality({ d \in DeclaredIntervals(state.chordType, state.extensions) :
                              (state.rootNote + d) % 12 = chord[i] % 12 }) = 1
         /\ \A i \in DOMAIN chord :
              chord[i] - state.rootNote
                \in DeclaredIntervals(state.chordType, state.extensions)

\* a chord with every extension near the top of the range: the notes above
\* 127 are left out
ChordAscendingWitness ==
  /\ "generateChord" \in last.done \ last.threw
  /\ state.rootNote = 116
  /\ state.chordType = "Min"
  /\ Len(state.extensions) = 4
  /\ last.generateChord = <<116, 119, 123, 125, 126, 127>>

\* every note of the chord after each of the position's inversion steps is
\* in 0..127
StaysInRange(notes, position) ==
  \A k \in 0..Abs(position) :
    \A n \in Range(VoiceSteps(SortAsc(notes), position, k)) : InRange(n)

\* the pitch classes of the notes as a multiset: in ascending order
PitchClassBag(notes) == SortAsc([ i \in DOMAIN notes |-> notes[i] % 12 ])

\* C24: for every chord produced by generateChord and every n in -4..4 for
\* which all intermediate notes stay within 0..127,
\* applyVoicing(applyVoicing(notes, n), -n) has the same pitch-class multiset
\* as notes, and equals notes for chords spanning less than an octave.
VoicingRoundTrip ==
  ( /\ "applyVoicing" \in last.done
    /\ StaysInRange(last.generateChord, last.position)
    /\ StaysInRange(last.applyVoicing, -last.position) )
  => /\ PitchClassBag(applyVoicing(last.applyVoicing, -last.position))
          = PitchClassBag(last.generateChord)
     /\ last.generateChord[Len(last.generateChord)] - last.generateChord[1] < 12
          => applyVoicing(last.applyVoicing, -last.position) = last.generateChord

\* a chord with the ninth, wider than an octave, voiced two steps up and
\* back: the same pitch classes on other notes
VoicingRoundTripWitness ==
  /\ "applyVoicing" \in last.done
  /\ last.generateChord = <<60, 64, 67, 74>>
  /\ last.position = 2
  /\ last.applyVoicing = <<67, 72, 74, 76>>
  /\ StaysInRange(last.generateChord, last.position)
  /\ StaysInRange(last.applyVoicing, -last.position)
  /\ applyVoicing(last.applyVoicing, -last.position) = <<62, 64, 67, 72>>

\* C25: quantizeNoteToKey is idempotent: for every note x in 0..127, every
\* scale root 0..11 and each of the eight scales,
\* quantize(quantize(x)) = quantize(x).
QuantizeIdempotent ==
  ( /\ "quantizeNoteToKey" \in last.done
    /\ state.scaleType \in DOMAIN SCALE_DEGREES )
  => quantizeNoteToKey(last.quantizeNoteToKey, state.keyRoot, state.scaleType)
       = last.quantizeNoteToKey

\* a note off the scale, moved across the octave by the first quantization
QuantizeIdempotentWitness ==
  /\ "quantizeNoteToKey" \in last.done
  /\ state.midiNote = 71
  /\ state.keyRoot = 0
  /\ state.scaleType = "pentatonic_major"
  /\ last.quantizeNoteToKey = 72
  /\ quantizeNoteToKey(72, state.keyRoot, state.scaleType) = 72

\* the note's pitch-class offset from the key root is a degree of the scale
InScale(n, keyRoot, scaleType) ==
  (((n % 12) - keyRoot) + 12) % 12 \in Range(SCALE_DEGREES[scaleType])

\* C26: for every note x in 0..127, every scale root 0..11 and each of the
\* eight scales, quantizeNoteToKey(x) is a note of the scale, lies in 0..127,
\* and no note of the scale in 0..127 is strictly closer to x; it equals x
\* when x is already in the scale.
QuantizeNearestScaleNote ==
  ( /\ "quantizeNoteToKey" \in last.done
    /\ state.scaleType \in DOMAIN SCALE_DEGREES )
  => /\ InScale(last.quantizeNoteToKey, state.keyRoot, state.scaleType)
     /\ last.quantizeNoteToKey \in 0..127
     /\ \A n \in 0..127 :
          InScale(n, state.keyRoot, state.scaleType)
          => Abs(n - state.midiNote) >= Abs(last.quantizeNoteToKey - state.midiNote)
     /\ InScale(state.midiNote, state.keyRoot, state.scaleType)
          => last.quantizeNoteToKey = state.midiNote

\* C27: applyBassVoicing(root, shift) lies in 24..60 for every root in 0..127
\* and every shift in -2..2, and equals root + 12 * shift whenever that value
\* is itself in 24..60.
BassNoteInRange ==
  "applyBassVoicing" \in last.done
  => /\ last.applyBassVoicing \in 24..60
     /\ state.rootNote + 12 * state.bassOctave \in 24..60
          => last.applyBassVoicing = state.rootNote + 12 * state.bassOctave

\* a root shifted below the range: the lowest bass note
BassNoteInRangeWitness ==
  /\ "applyBassVoicing" \in last.done
  /\ state.rootNote = 40
  /\ state.bassOctave = -2
  /\ last.applyBassVoicing = 24

\* ------------------------------------------- the engine played from the keys
\* The engine with its dials, performance mode, input mode or playstyle set
\* beforehand, played with two keys, each at its own velocity, the chord-type
\* shortcut keys and an extension button.

Played ==
  [ keys |-> {60, 127},
    velocityOf |-> (60 :> 40) @@ (127 :> 100),
    chordTypes |-> {"Maj", "Min"},
    extensions |-> {"m7"},
    positions |-> {-4, 1},
    bassOctaves |-> {-2, 2},
    performanceModes |-> {"strum", "harp", "arp"} ]

PlayStates ==
  { [ getDefaultState EXCEPT !.voicingPosition = p, !.bassOctave = b ] :
      p \in Played.positions, b \in Played.bassOctaves }
  \cup { [ getDefaultState EXCEPT !.performanceMode = m ] :
           m \in Played.performanceModes }
  \cup { [ getDefaultState EXCEPT !.globalMode = m ] : m \in Modes }
  \cup { [ getDefaultState EXCEPT !.playstyle = m ] : m \in Playstyles }

InitPlay ==
  /\ state \in PlayStates
  /\ midi = NewMIDI
  /\ held = {}
  /\ last = Op("init")
  /\ quiet = FALSE
  /\ edits = 0
  /\ pressedAs = <<>>
  /\ struck = <<>>
  /\ down = <<>>
  /\ twice = <<>>

\* the shortcut keys 1-4: a keydown that is no repeat, or the keyup of a key
\* that is down -> onChordType
ChordTypeKey(chordType, isPressed) ==
  /\ isPressed <=> ~Has(down, chordType)
  /\ \E rnd \in Randoms(state) :
       Becomes(onChordType(state, Begin(midi), chordType, isPressed, rnd))
  /\ down' = IF isPressed THEN Append(down, chordType) ELSE SetDelete(down, chordType)
  /\ last' = [ Op("chordType") EXCEPT !.type = chordType, !.did = isPressed ]
  /\ UNCHANGED <<held, quiet, edits, pressedAs, struck, twice>>

NextPlay ==
  \/ \E output \in Outputs : SelectMIDIOutput(output)
  \/ \E midiNote \in Played.keys :
       MIDINoteOn(midiNote, Played.velocityOf[midiNote])
  \/ \E midiNote \in Played.keys : MIDINoteOff(midiNote)
  \/ \E chordType \in Played.chordTypes, isPressed \in BOOLEAN :
       ChordTypeKey(chordType, isPressed)
  \/ \E extension \in Played.extensions, isPressed \in BOOLEAN :
       ExtensionButton(extension, isPressed)
  \/ TimerFires

SpecPlay == InitPlay /\ [][NextPlay]_vars

\* C28: every note-on emitted by the engine on any channel carries a note in
\* 0..127, and on the bass channel a note in 24..60, whatever the input note,
\* chord type, extensions, voicing position, bass shift and performance mode,
\* also for chords whose voiced notes are all dropped as out of range.
EmittedNotesInRange ==
  \A i \in DOMAIN midi.sent :
    midi.sent[i].type = "on"
    => /\ midi.sent[i].note \in 0..127
       /\ midi.sent[i].channel = BASS => midi.sent[i].note \in 24..60

\* the velocity of the input note-on that causes what a step emits: the
\* note-on of the step itself, else the note-on of the active chord key
CausingVelocity(L, S, K) ==
  IF L.op = "noteOn" THEN L.velocity
  ELSE IF S.activeMidiNote \in DOMAIN K THEN K[S.activeMidiNote]
  ELSE NoNote

\* every note-on the step sent and every note-on event it scheduled carries
\* the velocity v
EmittedAt(M, v) ==
  /\ \A i \in DOMAIN M.sent : M.sent[i].type = "on" => M.sent[i].velocity = v
  /\ \A i \in DOMAIN M.pendingTimeouts :
       ( /\ M.pendingTimeouts[i].fresh
         /\ M.pendingTimeouts[i].kind = "event"
         /\ M.pendingTimeouts[i].type = "noteOn" )
       => M.pendingTimeouts[i].velocity = v

\* C29: input velocity is preserved: every note-on emitted because of an
\* input note-on (pass-through, quantized, chord, bass, strum and harp events,
\* every arp cycle, chords regenerated by chord-type and extension changes)
\* carries the velocity of the input note-on that is causing it.
InputVelocityPreserved ==
  [][ EmittedAt(midi', CausingVelocity(last', state', struck')) ]_vars

\* a later cycle of the arp of a key pressed at velocity 40, after the chord
\* was regenerated by a chord type: its events carry velocity 40
InputVelocityWitness ==
  /\ last.op = "fire"
  /\ last.kind = "loop"
  /\ state.activeMidiNote = 60
  /\ struck[60] = 40
  /\ state.activeChordType = "Min"
  /\ \E i \in DOMAIN midi.pendingTimeouts :
       /\ midi.pendingTimeouts[i].fresh
       /\ midi.pendingTimeouts[i].kind = "event"
       /\ midi.pendingTimeouts[i].velocity = 40

\* C30: in Free playstyle the manual chord type is active exactly while its
\* button is held: after any sequence of chord-type presses and releases,
\* activeChordType is the most recently pressed button that is still held,
\* and null only when no chord-type button is held.
FreeChordTypeWhileHeld ==
  ( state.playstyle = "free" /\ ~state.split.enabled )
  => state.activeChordType = IF down = <<>> THEN NULL ELSE down[Len(down)]

\* C31: in Simple playstyle the chord-type buttons toggle: pressing the one
\* that is selected deselects it (activeChordType becomes null), pressing
\* another one selects it; in Advanced playstyle the selection persists
\* across button releases until another chord type is pressed.
ChordTypeToggles ==
  [][ ( last'.op = "chordType" /\ ~state.split.enabled )
      => /\ ( state.playstyle = "simple" /\ last'.did )
            => state'.activeChordType =
                 IF state.activeChordType = last'.type THEN NULL ELSE last'.type
         /\ ( state.playstyle = "advanced" /\ last'.did )
            => state'.activeChordType = last'.type
         /\ ( state.playstyle = "advanced" /\ ~last'.did )
            => state'.activeChordType = state.activeChordType ]_vars

\* C32: applyArpPattern 'upDown' on n >= 2 distinct notes returns the notes
\* ascending followed by the notes descending without either endpoint, 2n-2
\* steps; 'downUp' is the mirror image, descending first; in both no step is
\* the same note as the step after it, the first step of the next cycle
\* counted as the step after the last.
UpDownTurnsWithoutRepeat ==
  ( /\ state.of = "names"
    /\ "applyArpPattern" \in last.done
    /\ state.pattern \in {"upDown", "downUp"}
    /\ Len(state.notes) >= 2 )
  => LET n == Len(state.notes)
         ascending == SortAsc(state.notes)
         first == IF state.pattern = "upDown" THEN ascending
                  ELSE Reverse(ascending)
         steps == last.applyArpPattern
     IN  /\ Len(steps) = 2 * n - 2
         /\ \A i \in 1..n : steps[i] = first[i]
         /\ \A i \in 1..(n - 2) : steps[n + i] = first[n - i]
         /\ \A i \in 1..Len(steps) : steps[i] # steps[(i % Len(steps)) + 1]

\* four notes given out of order, played up and down
UpDownTurnsWitness ==
  /\ "applyArpPattern" \in last.done
  /\ state.pattern = "upDown"
  /\ state.notes = <<71, 60, 67, 64>>
  /\ last.applyArpPattern = <<60, 64, 67, 71, 67, 64>>

\* the root's name followed by the chord type's suffix
BaseName(rootNote, chordType) ==
  <<"C", "C#", "D", "D#", "E", "F", "F#", "G", "G#", "A", "A#", "B">>
    [(rootNote % 12) + 1]
  \o ( CASE chordType = "Maj" -> ""
         [] chordType = "Min" -> "m"
         [] chordType = "Sus" -> "sus4"
         [] chordType = "Dim" -> "dim" )

\* C33: getChordDisplayName for a chord with exactly three extensions returns
\* the base name followed by ' JAZZ', for every chord type and every choice
\* of three extensions; with no extension it returns the base name alone.
ThreeExtensionsAreJazz ==
  ( /\ "getChordDisplayName" \in last.done
    /\ state.chordType \in DOMAIN CHORD_INTERVALS )
  => /\ Len(state.extensions) = 3
        => last.getChordDisplayName
             = BaseName(state.rootNote, state.chordType) \o " JAZZ"
     /\ Len(state.extensions) = 0
        => last.getChordDisplayName = BaseName(state.rootNote, state.chordType)

\* C34: the bass note emitted for a chord is derived from the chord's root:
\* it is applyBassVoicing(root, bassOctave), root being the input note of the
\* chord, whatever voicing position is applied to the chord.
BassFromRoot ==
  \A i \in DOMAIN midi.sent :
    ( midi.sent[i].type = "on" /\ midi.sent[i].channel = BASS )
    => midi.sent[i].note = applyBassVoicing(state.activeMidiNote, state.bassOctave)

\* C36: in every reachable state the keys of quantizedNoteMap are a subset of
\* passThroughNotes, and after the note-off of a key that was handled as
\* pass-through or quantize neither structure contains that key.
QuantizedKeysArePassThrough ==
  /\ [] ( DOMAIN state.quantizedNoteMap \subseteq state.passThroughNotes )
  /\ [][ ( last'.op = "noteOff" /\ last'.note \in state.passThroughNotes )
         => /\ last'.note \notin state'.passThroughNotes
            /\ last'.note \notin DOMAIN state'.quantizedNoteMap ]_vars

\* two keys held as quantized notes, one of them released
QuantizedKeysWitness ==
  /\ last.op = "noteOff"
  /\ last.mode = "quantize"
  /\ last.note = 55
  /\ state.passThroughNotes = {62}
  /\ DOMAIN state.quantizedNoteMap = {62}

\* ------------------------------------------------ note-ons of a held key
\* The engine receiving a second note-on for a key before its note-off (two
\* controllers on one input, or a note-on repeated by the device), with the
\* key and mode settings edited in between.

\* midi.onNoteOn -> onMIDINoteOn for a key that is down
MIDINoteOnAgain(midiNote, velocity) ==
  /\ midiNote \in held \ DOMAIN twice
  /\ \E rnd \in Randoms(state) :
       Becomes(onMIDINoteOn(state, Begin(midi), midiNote, velocity, rnd))
  /\ twice' = MapSet(twice, midiNote, TRUE)
  /\ last' = [ Op("noteOn") EXCEPT !.note = midiNote, !.velocity = velocity,
                                   !.mode = getModeForNote(state, midiNote),
                                   !.did = TRUE ]
  /\ quiet' = FALSE
  /\ pressedAs' = IF getModeForNote(state, midiNote) \in {"off", "quantize"}
                  THEN MapSet(pressedAs, midiNote,
                              [ mode |-> getModeForNote(state, midiNote),
                                notes |-> ( IF midiNote \in DOMAIN pressedAs
                                            THEN pressedAs[midiNote].notes
                                            ELSE <<>> )
                                          \o OnNotes(midi'.sent) ])
                  ELSE pressedAs
  /\ struck' = MapSet(struck, midiNote, velocity)
  /\ UNCHANGED <<held, edits, down>>

\* the first of the two note-offs of such a key: midi.onNoteOff -> onMIDINoteOff
MIDINoteOffFirst(midiNote) ==
  /\ midiNote \in DOMAIN twice
  /\ twice[midiNote]
  /\ Becomes(onMIDINoteOff(state, Begin(midi), midiNote))
  /\ twice' = MapSet(twice, midiNote, FALSE)
  /\ last' = [ Op("noteOff") EXCEPT
                 !.note = midiNote,
                 !.active = midiNote \notin state.passThroughNotes
                            /\ state.activeMidiNote = midiNote ]
  /\ quiet' = IF midiNote \notin state.passThroughNotes
                 /\ state.activeMidiNote = midiNote
              THEN TRUE ELSE quiet
  /\ UNCHANGED <<held, edits, pressedAs, struck, down>>

NextRepeat ==
  \/ \E output \in Outputs : SelectMIDIOutput(output)
  \/ \E midiNote \in Keys, velocity \in Velocities : MIDINoteOn(midiNote, velocity)
  \/ \E midiNote \in Keys, velocity \in Velocities :
       MIDINoteOnAgain(midiNote, velocity)
  \/ \E midiNote \in Keys : MIDINoteOffFirst(midiNote)
  \/ \E midiNote \in Keys : MIDINoteOff(midiNote)
  \/ updateKeySettings
  \/ setGlobalMode

SpecRepeat == Init /\ [][NextRepeat]_vars

\* C35: if a key receives a second note-on before its note-off while in
\* quantize or pass-through mode, the settings changed in between so that the
\* two notes sent differ, then after both note-offs every note that was
\* turned on for the key has been turned off and neither passThroughNotes nor
\* quantizedNoteMap contains the key.
RepeatedKeyReleased ==
  [][ ( /\ last'.op = "noteOff"
        /\ last'.note \notin held'
        /\ held' = {}
        /\ Len(last'.out) = 2
        /\ last'.out[1] # last'.out[2] )
      => /\ \A i \in 1..2 : ~Has(midi'.activeNotes[CHORD], last'.out[i])
         /\ last'.note \notin state'.passThroughNotes
         /\ last'.note \notin DOMAIN state'.quantizedNoteMap ]_vars

\* --------------------------------------------------------- the arp loop
\* The engine played in Arp and Arp2Oct. The browser runs every timer that
\* is due: while timers are pending, timer callbacks keep running. That is
\* the weak fairness of TimerFires, stated by its meaning (a TimerFires step
\* is enabled exactly when a timer is pending, and is the step that leaves
\* last.op = "fire"): infinitely often no timer is pending, or infinitely
\* often a callback runs.

InitArp ==
  /\ state \in { [ getDefaultState EXCEPT !.performanceMode = mode ] :
                   mode \in {"arp", "arp2oct"} }
  /\ midi = NewMIDI
  /\ held = {}
  /\ last = Op("init")
  /\ quiet = FALSE
  /\ edits = 0
  /\ pressedAs = <<>>
  /\ struck = <<>>
  /\ down = <<>>
  /\ twice = <<>>

SpecArp ==
  /\ InitArp
  /\ [][NextPlay]_vars
  /\ ( []<>(midi.pendingTimeouts = <<>>) \/ []<><<last'.op = "fire">>_vars )

\* the chord note is held in Arp or Arp2Oct, its note set is not empty and
\* an output is selected
ArpHeld ==
  /\ state.activeMidiNote \in held
  /\ getModeForNote(state, state.activeMidiNote) = "chord"
  /\ state.performanceMode \in {"arp", "arp2oct"}
  /\ generateCurrentArpNotes(state).notes # <<>>
  /\ midi.output # NULL

\* the loop's kickoff timers that are pending
Kickoffs ==
  { i \in DOMAIN midi.pendingTimeouts : midi.pendingTimeouts[i].kind = "loop" }

\* a step that sends a note-on on the performance channel
PerformanceNoteOn ==
  \E i \in DOMAIN midi'.sent :
    midi'.sent[i].type = "on" /\ midi'.sent[i].channel = PERFORMANCE

\* C37: while a chord note stays held in Arp/Arp2Oct with a non-empty note
\* set the loop never stops: the kickoff of the next cycle is pending, every
\* cycle is followed by another one (performance-channel note-ons occur
\* infinitely often), and at most one kickoff timer is pending at any time,
\* also after re-presses and chord-type changes that restart the loop.
ArpLoopKeepsRunning ==
  /\ [] ( Cardinality(Kickoffs) <= 1 )
  /\ [] ( ArpHeld => Cardinality(Kickoffs) = 1 )
  /\ ( <>[] ArpHeld => []<><<PerformanceNoteOn>>_vars )

\* a later cycle kicked off after a chord-type change restarted the loop
ArpLoopWitness ==
  /\ ArpHeld
  /\ last.op = "fire"
  /\ last.kind = "loop"
  /\ state.activeChordType = "Min"
  /\ Cardinality(Kickoffs) = 1

\* t is x / y milliseconds as a timer counts it, in whole milliseconds
WholeMs(t, x, y) == t * y <= x /\ x < (t + 1) * y

\* C38: in an arpeggio sequence step i has delay i * step with
\* step = (60000 / BPM) / division factor; each step's note-off fires 85% of
\* a step after its note-on and so strictly before the note-on of step i+1;
\* the total duration reported is the number of steps times the step; in
\* two-octave mode the +12 pass follows the base pass in pattern order,
\* without re-sorting.
ArpeggioTiming ==
  ( state.of = "arpeggio" /\ "generateArpeggio" \in last.done )
  => LET events == last.generateArpeggio.sequence
         n == Len(events)
         perStep == state.bpm * NOTE_DIVISIONS[state.division]
         played == [ i \in 1..n |-> events[i].note ]
     IN  /\ \A i \in 1..n :
               /\ WholeMs(events[i].delayMs, (i - 1) * 60000, perStep)
               /\ WholeMs(events[i].durationMs, 60000 * 85, perStep * 100)
               /\ events[i].channel = PERFORMANCE
         /\ \A i \in 1..(n - 1) :
               events[i].delayMs + events[i].durationMs < events[i + 1].delayMs
         /\ WholeMs(last.generateArpeggio.totalDurationMs, n * 60000, perStep)
         /\ \E rnd \in RandomStreams :
               LET base == applyArpPattern(state.notes, state.pattern, rnd)
               IN  played = IF state.twoOctaves
                            THEN base \o SelectSeq(MapPlus(base, 12), NotAbove127)
                            ELSE base

\* a descending two-octave arpeggio in twelfth notes at 133 BPM
ArpeggioTimingWitness ==
  /\ "generateArpeggio" \in last.done
  /\ state.notes = <<60, 64, 67>>
  /\ state.pattern = "down"
  /\ state.twoOctaves
  /\ state.bpm = 133
  /\ state.division = "1/12"
  /\ [ i \in 1..6 |-> last.generateArpeggio.sequence[i].note ]
       = <<67, 64, 60, 79, 76, 72>>
  /\ last.generateArpeggio.sequence[2].delayMs = 150
  /\ last.generateArpeggio.sequence[2].durationMs = 127
  /\ last.generateArpeggio.totalDurationMs = 902

\* the notes with, in two-octave mode, their copies an octave up that are
\* not above 127
WithOctaveUp(notes, twoOctaves) ==
  IF twoOctaves THEN notes \o SelectSeq(MapPlus(notes, 12), NotAbove127)
  ELSE notes

\* C39: generateStrum without slop emits the notes (plus their +12 copies not
\* above 127 in two-octave mode) in strictly ascending pitch order, with
\* delay index * gap, where gap is 10 ms at dial 127, 100 ms at dial 0 and
\* non-increasing in the dial over 0..127; with slop > 0 every delay is still
\* >= 0.
StrumAscendingEvenly ==
  ( state.of = "strum" /\ "generateStrum" \in last.done )
  => LET events == last.generateStrum
         n == Len(events)
     IN  /\ state.slop = 0
            => /\ Range([ i \in 1..n |-> events[i].note ])
                    = Range(WithOctaveUp(state.notes, state.twoOctaves))
               /\ n = Len(WithOctaveUp(state.notes, state.twoOctaves))
               /\ \A i \in 1..(n - 1) : events[i].note < events[i + 1].note
               /\ events[1].delayMs = 0
               \* one gap, in 127ths of a millisecond, gives every delay
               /\ n >= 2
                  => \E gap127 \in (events[2].delayMs * 127)
                                     ..(events[2].delayMs * 127 + 126) :
                       /\ \A i \in 1..n :
                            WholeMs(events[i].delayMs, (i - 1) * gap127, 127)
                       /\ state.dialPosition = 127 => gap127 = 10 * 127
                       /\ state.dialPosition = 0 => gap127 = 100 * 127
               \* the next dial position's delays are no longer
               /\ state.dialPosition < 127
                  => \A i \in 1..n :
                       generateStrum(state.notes, state.dialPosition + 1, 100,
                                     state.twoOctaves, 0, <<0>>)[i].delayMs
                         <= events[i].delayMs
         /\ state.slop > 0 => \A i \in 1..n : events[i].delayMs >= 0

\* a two-octave strum at dial 0 of notes given out of order
StrumWitness ==
  /\ "generateStrum" \in last.done
  /\ state.notes = <<67, 60, 64>>
  /\ state.twoOctaves
  /\ state.slop = 0
  /\ state.dialPosition = 0
  /\ [ i \in 1..6 |-> last.generateStrum[i].note ] = <<60, 64, 67, 72, 76, 79>>
  /\ last.generateStrum[6].delayMs = 500

====
